---- MODULE Spec2Model ----
(***************************************************************************)
(* The astrological computation engine of the mystic backend:              *)
(*   backend/services/astrology_service.py          (AstrologyService)     *)
(*   backend/services/synastry_analysis_service.py  (SynastryAnalysisService) *)
(*                                                                         *)
(* Number encoding.  The code computes on Python floats (IEEE-754 binary64). *)
(*   - a longitude or an angular distance is an integer count of          *)
(*     1/Unit degree (Unit = 64: every model longitude is a binary         *)
(*     fraction, so the code's float subtraction, modulo and comparison    *)
(*     are exact on it, and round(x, n) of such a value rounds its exact   *)
(*     value, a tie going to the even neighbour);                          *)
(*   - a value the code passes through round(x, 1) is an integer count of  *)
(*     tenths, through round(x, 2) an integer count of hundredths;         *)
(*   - where the code multiplies, divides or adds values that are no       *)
(*     binary fractions (the illumination, the orb modifier, the weights,  *)
(*     the score totals, the orbit of a library aspect) the model computes *)
(*     on floats: a float is a record of sign, 53-bit significand and      *)
(*     exponent, and every operation rounds to nearest, ties to even, as   *)
(*     the hardware does.                                                  *)
(***************************************************************************)
EXTENDS Integers, Sequences, FiniteSets, TLC

VARIABLES
    pc,              \* position of the computation of the running specification
    sun_longitude,   \* calculate_moon_phase argument, in 1/Unit degree
    moon_longitude,  \* calculate_moon_phase argument, in 1/Unit degree
    moon_phase,      \* the record calculate_moon_phase returned
    phase_branch,    \* which return statement of calculate_moon_phase produced it
    chart1,          \* natal chart of person 1: planet key -> position or None
    chart2,          \* natal chart of person 2, and the natal chart of calculate_transits
    current_sky,     \* positions of the sky of target_date: planet key -> position or None
    synastry_aspects,\* the list calculate_manual_synastry returned
    transit_aspects, \* calculate_transits: every detected aspect, sorted by orb
    transit_summary, \* the record calculate_transits returned
    aspects,         \* the synastry aspect list handed to the two scoring functions
    weighted_locals, \* calculate_weighted_score: its locals before the normalization
    weighted_scores, \* the record calculate_weighted_score returned
    compat_scores,   \* the record calculate_compatibility_scores returned
    library_aspects, \* what the aspect library answers: its aspect list, or that it raises
    report,          \* what calculate_synastry or calculate_natal_chart returned or raised
    request,         \* the arguments of the call a request makes
    ephemeris        \* what the ephemeris source answers: its records, or that it raises

moonVars == <<sun_longitude, moon_longitude, moon_phase, phase_branch>>

aspectVars == <<chart1, chart2, current_sky, synastry_aspects,
                transit_aspects, transit_summary>>

scoreVars == <<aspects, weighted_locals, weighted_scores, compat_scores>>

libraryVars == <<library_aspects, report>>

requestVars == <<request, ephemeris>>

vars == <<pc, moonVars, aspectVars, scoreVars, libraryVars, requestVars>>

(***************************************************************************)
(* Units and rounding                                                      *)
(***************************************************************************)
\* resolution of the model's longitudes: Unit steps per degree
Unit == 64

\* n whole degrees, in 1/Unit degree
Deg(n) == n * Unit

\* k half degrees, in 1/Unit degree
HalfDeg(k) == (k * Unit) \div 2

\* the full circle, in 1/Unit degree
Circle == Deg(360)

\* Python abs()
Abs(x) == IF x < 0 THEN 0 - x ELSE x

\* Python max() and min() of two numbers
Max(a, b) == IF a >= b THEN a ELSE b
Min(a, b) == IF a <= b THEN a ELSE b

\* the integer nearest to num/den (num >= 0, den > 0), an exact tie going to
\* the even neighbour: Python's round() on a float that holds num/den exactly
RoundHalfEven(num, den) ==
    LET q == num \div den
        r == num % den
    IN  IF 2 * r > den \/ (2 * r = den /\ q % 2 = 1) THEN q + 1 ELSE q

\* round(x, 1) of x = units/Unit degrees, as a count of tenths
Round1(units) == RoundHalfEven(10 * units, Unit)

\* round(x, 2) of x = units/Unit degrees, as a count of hundredths
Round2(units) == RoundHalfEven(100 * units, Unit)

(***************************************************************************)
(* Python floats: IEEE 754 binary64, round to nearest, ties to even        *)
(* A float is [neg, man, exp] with the value (-1)^neg * man * 2^exp, its   *)
(* 53-bit significand man held as four 14-bit limbs, least significant     *)
(* first; zero is the significand 0 with exponent 0.  Infinities, NaN,     *)
(* subnormals and the negative zero do not occur in the computations       *)
(* modelled.                                                               *)
(***************************************************************************)
\* the base of a limb: 2^14
Limb == 16384

\* the limb of a natural number held as limbs, 0 beyond its length
LimbAt(N, i) == IF i \in DOMAIN N THEN N[i] ELSE 0

RECURSIVE BitsOf(_)
\* the number of binary digits of a natural number
BitsOf(x) == IF x = 0 THEN 0 ELSE 1 + BitsOf(x \div 2)

RECURSIVE TopLimb(_, _)
\* the index of the highest limb of N that is not 0, from limb k down
TopLimb(N, k) == IF k = 0 THEN 0 ELSE IF N[k] # 0 THEN k ELSE TopLimb(N, k - 1)

\* the number of binary digits of N
BitLength(N) ==
    LET k == TopLimb(N, Len(N))
    IN  IF k = 0 THEN 0 ELSE 14 * (k - 1) + BitsOf(N[k])

\* N * 2^s, in len limbs
ShiftLeft(N, s, len) ==
    LET ls == s \div 14
        bs == s % 14
    IN  [i \in 1..len |->
            ((LimbAt(N, i - ls) * 2^bs) % Limb) + (LimbAt(N, i - ls - 1) \div 2^(14 - bs))]

\* N \div 2^s, in len limbs
ShiftRight(N, s, len) ==
    LET ls == s \div 14
        bs == s % 14
    IN  [i \in 1..len |->
            (LimbAt(N, i + ls) \div 2^bs) + ((LimbAt(N, i + ls + 1) % 2^bs) * 2^(14 - bs))]

\* the binary digit of N of weight 2^p
BitAt(N, p) == (LimbAt(N, (p \div 14) + 1) \div 2^(p % 14)) % 2

\* N has a binary digit 1 of weight less than 2^p
AnyBitBelow(N, p) ==
    \E i \in DOMAIN N :
        /\ 14 * (i - 1) < p
        /\ IF 14 * i <= p THEN N[i] # 0 ELSE N[i] % 2^(p - 14 * (i - 1)) # 0

RECURSIVE AddLimbs(_, _, _, _, _)
\* A + B from limb i on with the carry, in len limbs
AddLimbs(A, B, i, carry, len) ==
    IF i > len THEN << >>
    ELSE LET t == LimbAt(A, i) + LimbAt(B, i) + carry
         IN  <<t % Limb>> \o AddLimbs(A, B, i + 1, t \div Limb, len)

RECURSIVE SubLimbs(_, _, _, _, _)
\* A - B (A >= B) from limb i on with the borrow, in len limbs
SubLimbs(A, B, i, borrow, len) ==
    IF i > len THEN << >>
    ELSE LET t == LimbAt(A, i) - LimbAt(B, i) - borrow
         IN  IF t < 0 THEN <<t + Limb>> \o SubLimbs(A, B, i + 1, 1, len)
             ELSE <<t>> \o SubLimbs(A, B, i + 1, 0, len)

RECURSIVE CompareLimbs(_, _, _)
\* 1, 0 or -1 as A is greater than, equal to or less than B, from limb i down
CompareLimbs(A, B, i) ==
    IF i = 0 THEN 0
    ELSE IF LimbAt(A, i) > LimbAt(B, i) THEN 1
    ELSE IF LimbAt(A, i) < LimbAt(B, i) THEN 0 - 1
    ELSE CompareLimbs(A, B, i - 1)

RECURSIVE MulLimbs(_, _, _, _)
\* A * B for A and B of four limbs, from limb k on with the carry, in 8 limbs
MulLimbs(A, B, k, carry) ==
    IF k > 8 THEN << >>
    ELSE LET t == carry + A[1] * LimbAt(B, k) + A[2] * LimbAt(B, k - 1)
                        + A[3] * LimbAt(B, k - 2) + A[4] * LimbAt(B, k - 3)
         IN  <<t % Limb>> \o MulLimbs(A, B, k + 1, t \div Limb)

\* the limbs of a natural number below 2^31
IntLimbs(x) == <<x % Limb, (x \div Limb) % Limb, x \div (Limb * Limb), 0>>

\* the float 0.0
FloatZero == [neg |-> FALSE, man |-> <<0, 0, 0, 0>>, exp |-> 0]

\* the float of sign neg, significand q and exponent e, for q of 53 binary
\* digits or, after a carry out of them, 2^53
Carried(neg, q, e) ==
    IF q[4] >= 2048 THEN [neg |-> neg, man |-> <<0, 0, 0, 1024>>, exp |-> e + 1]
    ELSE [neg |-> neg, man |-> q, exp |-> e]

\* N \div 2^s is rounded up: the digit below is 1 and the rest is above the
\* half, or it is the half and N \div 2^s is odd
RoundsUp(N, s, sticky) ==
    /\ BitAt(N, s - 1) = 1
    /\ (sticky \/ AnyBitBelow(N, s - 1) \/ BitAt(N, s) = 1)

\* RoundToFloat for N of L binary digits
RoundBits(neg, N, e, sticky, L) ==
    IF L = 0 THEN FloatZero
    ELSE IF L <= 53
    THEN [neg |-> neg, man |-> ShiftLeft(N, 53 - L, 4), exp |-> e - (53 - L)]
    ELSE Carried(neg,
                 AddLimbs(ShiftRight(N, L - 53, 4),
                          <<IF RoundsUp(N, L - 53, sticky) THEN 1 ELSE 0>>, 1, 0, 4),
                 e + L - 53)

\* the float nearest to (-1)^neg * (N + f) * 2^e, ties to even, where f is 0
\* or, when sticky, some fraction strictly between 0 and 1
RoundToFloat(neg, N, e, sticky) == RoundBits(neg, N, e, sticky, BitLength(N))

\* float(n) of a Python int of less than 31 bits
FloatOfInt(n) == RoundToFloat(n < 0, IntLimbs(IF n < 0 THEN 0 - n ELSE n), 0, FALSE)

FloatIsZero(a) == a.man = <<0, 0, 0, 0>>

\* -a
FloatNeg(a) == IF FloatIsZero(a) THEN a ELSE [a EXCEPT !.neg = ~a.neg]

\* abs(a)
FloatAbs(a) == [a EXCEPT !.neg = FALSE]

\* hi + lo for hi.exp >= lo.exp, A the significand of hi in units of
\* 2^lo.exp and c the comparison of A with the significand of lo
AddSignificands(hi, lo, A, c) ==
    IF hi.neg # lo.neg /\ c = 0 THEN FloatZero
    ELSE RoundToFloat(IF c >= 0 THEN hi.neg ELSE lo.neg,
                      IF hi.neg = lo.neg THEN AddLimbs(A, lo.man, 1, 0, 9)
                      ELSE SubLimbs(IF c > 0 THEN A ELSE lo.man,
                                    IF c > 0 THEN lo.man ELSE A, 1, 0, 9),
                      lo.exp, FALSE)

\* hi + lo for hi.exp >= lo.exp and the significand A of hi in units of 2^lo.exp
AddAligned(hi, lo, A) == AddSignificands(hi, lo, A, CompareLimbs(A, lo.man, 9))

\* hi + lo for hi.exp >= lo.exp, both not zero: a lo below the last digit of
\* hi by more than 5 digits does not change hi
AddOrdered(hi, lo) ==
    IF hi.exp - lo.exp > 58 THEN hi
    ELSE AddAligned(hi, lo, ShiftLeft(hi.man, hi.exp - lo.exp, 9))

\* a + b
FloatAdd(a, b) ==
    IF FloatIsZero(a) THEN b
    ELSE IF FloatIsZero(b) THEN a
    ELSE IF a.exp >= b.exp THEN AddOrdered(a, b)
    ELSE AddOrdered(b, a)

\* a - b
FloatSub(a, b) == FloatAdd(a, FloatNeg(b))

\* a * b
FloatMul(a, b) ==
    IF FloatIsZero(a) \/ FloatIsZero(b) THEN FloatZero
    ELSE RoundToFloat(a.neg # b.neg, MulLimbs(a.man, b.man, 1, 0), a.exp + b.exp, FALSE)

RECURSIVE CorrectDigit(_, _, _)
\* the quotient digit q raised until the remainder rem is less than D
CorrectDigit(q, rem, D) ==
    IF CompareLimbs(rem, D, 5) >= 0
    THEN CorrectDigit(q + 1, SubLimbs(rem, D, 1, 0, 5), D)
    ELSE <<q, SubSeq(rem, 1, 4)>>

\* one step of the long division in base Limb of R by D, for R < D and D of
\* 53 binary digits: the quotient digit (R * Limb) \div D and the remainder;
\* the digit is estimated from the leading digits of R * Limb and D
DivideStep(R, D) ==
    LET Rtop  == R[4] * 2^19 + R[3] * 2^5 + (R[2] \div 2^9)
        Dtop  == D[4] * 2^5 + (D[3] \div 2^9)
        guess == Rtop \div (Dtop + 1)
        rem   == SubLimbs(<<0>> \o R, MulLimbs(D, <<guess, 0, 0, 0>>, 1, 0), 1, 0, 5)
    IN  CorrectDigit(guess, rem, D)

RECURSIVE ShortDivide(_, _, _, _)
\* <<N \div d, N % d>> for a divisor d below 2^11, limb by limb from limb i down
ShortDivide(N, d, i, rem) ==
    IF i = 0 THEN << << >>, rem >>
    ELSE LET cur  == rem * Limb + N[i]
             rest == ShortDivide(N, d, i - 1, cur % d)
         IN  <<Append(rest[1], cur \div d), rest[2]>>

\* the digit is put in front of the quotient of rest = <<quotient, remainder>>
WithDigit(rest, digit) == <<Append(rest[1], digit), rest[2]>>

RECURSIVE LongDivide(_, _, _)
\* LongDivide after its first step = <<digit, remainder>>
AfterStep(step, D, n) == WithDigit(LongDivide(step[2], D, n - 1), step[1])

\* <<(R * Limb^n) \div D, (R * Limb^n) % D>> for R < D, by n steps
LongDivide(R, D, n) ==
    IF n = 0 THEN << << >>, R >> ELSE AfterStep(DivideStep(R, D), D, n)

\* <<A \div D, A % D>> with 56 more binary digits of the quotient, for two
\* significands of 53 binary digits, ge telling that A >= D
DivideFrom(A, D, ge) ==
    WithDigit(LongDivide(IF ge THEN SubLimbs(A, D, 1, 0, 4) ELSE A, D, 4),
              IF ge THEN 1 ELSE 0)

\* <<quotient, 0 or 1 as the remainder is zero or not>>
RemainderFlag(qr) == <<qr[1], IF qr[2] = <<0, 0, 0, 0>> THEN 0 ELSE 1>>

\* the float of sign neg nearest to the quotient qr = <<quotient, remainder>>
\* in units of 2^e
Quotient(neg, qr, e) ==
    RoundToFloat(neg, qr[1], e, qr[2] # 0)

\* a / b for b # 0: the integer digit and 56 binary digits of the quotient
\* of the significands, with the remainder as the sticky digit; a divisor
\* whose significand fills its top limb only is divided by limb by limb
FloatDiv(a, b) ==
    IF FloatIsZero(a) THEN FloatZero
    ELSE Quotient(a.neg # b.neg,
                  IF SubSeq(b.man, 1, 3) = <<0, 0, 0>>
                  THEN ShortDivide(<<0>> \o a.man, b.man[4], 5, 0)
                  ELSE RemainderFlag(DivideFrom(a.man, b.man,
                                                 CompareLimbs(a.man, b.man, 4) >= 0)),
                  a.exp - b.exp - 56)

\* 1, 0 or -1 as a is positive, zero or negative
FloatSign(a) == IF FloatIsZero(a) THEN 0 ELSE IF a.neg THEN 0 - 1 ELSE 1

\* 1, 0 or -1 as a is greater than, equal to or less than b: by the signs,
\* then by the exponents of the normalised significands, then by these
FloatCompare(a, b) ==
    IF FloatSign(a) # FloatSign(b) THEN (IF FloatSign(a) > FloatSign(b) THEN 1 ELSE 0 - 1)
    ELSE IF a.exp # b.exp THEN FloatSign(a) * (IF a.exp > b.exp THEN 1 ELSE 0 - 1)
    ELSE FloatSign(a) * CompareLimbs(a.man, b.man, 4)

\* a < b and a <= b
FloatLess(a, b) == FloatCompare(a, b) < 0
FloatLeq(a, b) == FloatCompare(a, b) <= 0

\* max(a, b) of two floats (the first one when they are equal)
FloatMax(a, b) == IF FloatLess(a, b) THEN b ELSE a

\* the natural number a sequence of limbs holds (below 2^31)
LimbsValue(N) == LimbAt(N, 1) + LimbAt(N, 2) * Limb + LimbAt(N, 3) * Limb * Limb

\* int(a): truncation towards zero, for abs(a) < 2^31
FloatTrunc(a) ==
    IF FloatIsZero(a) \/ a.exp <= 0 - 53 THEN 0
    ELSE LET n == IF a.exp >= 0 THEN LimbsValue(ShiftLeft(a.man, a.exp, 3))
                  ELSE LimbsValue(ShiftRight(a.man, 0 - a.exp, 3))
         IN  IF a.neg THEN 0 - n ELSE n

\* round(a, ndigits) as the integer a count of 1/p it is (p = 10 for one
\* decimal, 100 for two): the multiple of 1/p nearest to the exact value of
\* a, a tie going to the even multiple; for abs(a) * p < 2^31 and abs(a) < 2^45
FloatRound(a, p) ==
    IF FloatIsZero(a) THEN 0
    ELSE LET N  == MulLimbs(a.man, <<p, 0, 0, 0>>, 1, 0)
             s  == 0 - a.exp
             n  == IF s <= 0 THEN LimbsValue(ShiftLeft(N, 0 - s, 3))
                   ELSE IF s > 62 THEN 0
                   ELSE LET q  == LimbsValue(ShiftRight(N, s, 3))
                            up == /\ BitAt(N, s - 1) = 1
                                  /\ (AnyBitBelow(N, s - 1) \/ q % 2 = 1)
                        IN  IF up THEN q + 1 ELSE q
         IN  IF a.neg THEN 0 - n ELSE n

\* the float a decimal literal with two decimals denotes, and the float
\* round(x, 2) returns: the one nearest to hundredths / 100
FloatOfHundredths(hundredths) == FloatDiv(FloatOfInt(hundredths), FloatOfInt(100))

\* the float a literal with one decimal denotes: the one nearest to tenths / 10
FloatOfTenths(tenths) == FloatDiv(FloatOfInt(tenths), FloatOfInt(10))

\* the float of an angle of the model: units / Unit degrees (exact for
\* Unit = 64)
FloatOfUnits(units) == FloatDiv(FloatOfInt(units), FloatOfInt(Unit))

NoResult == [name |-> "none"]

\* Python None
None == [none |-> TRUE]

\* the value of the variables a specification does not use
Idle == "idle"

IdleAspect ==
    /\ chart1 = Idle
    /\ chart2 = Idle
    /\ current_sky = Idle
    /\ synastry_aspects = Idle
    /\ transit_aspects = Idle
    /\ transit_summary = Idle

IdleScore ==
    /\ aspects = Idle
    /\ weighted_locals = Idle
    /\ weighted_scores = Idle
    /\ compat_scores = Idle

IdleLibrary ==
    /\ library_aspects = Idle
    /\ report = Idle

IdleRequest ==
    /\ request = Idle
    /\ ephemeris = Idle

(***************************************************************************)
(* Moon-Phase Calculator: AstrologyService.calculate_moon_phase            *)
(***************************************************************************)
\* MAJOR_TOLERANCE = 5.0 (degrees)
MAJOR_TOLERANCE == 5

\* MAJOR_PHASES, in the dict's insertion order
MAJOR_PHASES ==
    << [angle |-> 0,   name |-> "New Moon",      icon |-> "new_moon"],
       [angle |-> 90,  name |-> "First Quarter", icon |-> "first_quarter"],
       [angle |-> 180, name |-> "Full Moon",     icon |-> "full_moon"],
       [angle |-> 270, name |-> "Last Quarter",  icon |-> "last_quarter"] >>

\* a mutant of intermediate_phases: the Waxing Gibbous range ends at 170
intermediate_phases_gap ==
    << [name |-> "Waxing Crescent", icon |-> "waxing_crescent", lo |-> 5,   hi |-> 85],
       [name |-> "Waxing Gibbous",  icon |-> "waxing_gibbous",  lo |-> 95,  hi |-> 170],
       [name |-> "Waning Gibbous",  icon |-> "waning_gibbous",  lo |-> 185, hi |-> 265],
       [name |-> "Waning Crescent", icon |-> "waning_crescent", lo |-> 275, hi |-> 355] >>

\* intermediate_phases, in list order; "range" is (lo, hi)
intermediate_phases ==
    << [name |-> "Waxing Crescent", icon |-> "waxing_crescent", lo |-> 5,   hi |-> 85],
       [name |-> "Waxing Gibbous",  icon |-> "waxing_gibbous",  lo |-> 95,  hi |-> 175],
       [name |-> "Waning Gibbous",  icon |-> "waning_gibbous",  lo |-> 185, hi |-> 265],
       [name |-> "Waning Crescent", icon |-> "waning_crescent", lo |-> 275, hi |-> 355] >>

\* a mutant of PhaseAngle: the difference taken the other way round
PhaseAngleSwapped(sun, moon) == (sun - moon) % Circle

\* phase_angle = (moon_longitude - sun_longitude) % 360
PhaseAngle(sun, moon) == (moon - sun) % Circle

\* round(illumination, 1), in tenths of a percent: illumination is the float
\* phase_angle / 180 * 100 up to 180 degrees, (360 - phase_angle) / 180 * 100 after
Illumination(pa) ==
    LET phase_angle == FloatOfUnits(pa)
        lit         == IF pa <= Deg(180) THEN phase_angle
                       ELSE FloatSub(FloatOfInt(360), phase_angle)
    IN  FloatRound(FloatMul(FloatDiv(lit, FloatOfInt(180)), FloatOfInt(100)), 10)

\* diff = abs(phase_angle - angle); if diff > 180: diff = 360 - diff
MajorDiff(pa, angle) ==
    LET diff == Abs(pa - Deg(angle))
    IN  IF diff > Deg(180) THEN Circle - diff ELSE diff

\* a mutant of WithinMajor: the window boundary is excluded
WithinMajorStrict(pa, angle) == MajorDiff(pa, angle) < Deg(MAJOR_TOLERANCE)

\* if diff <= MAJOR_TOLERANCE
WithinMajor(pa, angle) == MajorDiff(pa, angle) <= Deg(MAJOR_TOLERANCE)

\* the indexes of the MAJOR_PHASES entries whose window holds phase_angle
MajorMatches(pa) ==
    {i \in DOMAIN MAJOR_PHASES : WithinMajor(pa, MAJOR_PHASES[i].angle)}

\* the indexes of the intermediate_phases entries with lo <= phase_angle < hi
IntermediateMatches(pa) ==
    {i \in DOMAIN intermediate_phases :
        /\ Deg(intermediate_phases[i].lo) <= pa
        /\ pa < Deg(intermediate_phases[i].hi)}

\* the smallest member of a non-empty set of indexes: the first loop iteration
\* that returns
FirstOf(S) == CHOOSE i \in S : \A j \in S : i <= j

\* the return statement calculate_moon_phase leaves by
PhaseBranch(sun, moon) ==
    LET pa == PhaseAngle(sun, moon)
    IN  IF MajorMatches(pa) # {} THEN "major"
        ELSE IF IntermediateMatches(pa) # {} THEN "intermediate"
        ELSE "fallback"

\* the record calculate_moon_phase returns; illumination and phase_angle are
\* counts of tenths
calculate_moon_phase(sun, moon) ==
    LET pa     == PhaseAngle(sun, moon)
        branch == PhaseBranch(sun, moon)
        info   == IF branch = "major"
                  THEN MAJOR_PHASES[FirstOf(MajorMatches(pa))]
                  ELSE IF branch = "intermediate"
                  THEN intermediate_phases[FirstOf(IntermediateMatches(pa))]
                  ELSE [name |-> "New Moon", icon |-> "new_moon"]
    IN  [name         |-> info.name,
         icon         |-> info.icon,
         illumination |-> Illumination(pa),
         phase_angle  |-> Round1(pa)]

(***************************************************************************)
(* Inputs of the moon-phase specification                                  *)
(***************************************************************************)
\* the smallest step of the fine input points: 1/32 degree
Fine == Unit \div 32

\* every half degree of the circle
HalfDegreeGrid == {HalfDeg(k) : k \in 0..719}

\* points one fine step to either side of every window boundary, and just
\* below the full circle
BoundaryPoints ==
    {Deg(b) + s * Fine : b \in {5, 85, 95, 175, 185, 265, 275, 355}, s \in {-1, 1}}
        \cup {Circle - Fine, Fine}

\* quarter-degree angles whose illumination lies, as a real number, half way
\* between two tenths (51.75 / 180 * 100 = 28.75): the float quotient decides
\* the rounding there
MidwayPoints ==
    {Deg(d) + q * (Unit \div 4) : d \in {51, 110, 114, 245, 249, 308}, q \in {1, 3}}

MoonLongitudes == HalfDegreeGrid \cup BoundaryPoints \cup MidwayPoints

SunLongitudes == {0, Deg(10), HalfDeg(181), Deg(270) + Fine, Circle - Fine}

\* the common offsets tried on both longitudes
Offsets == {Deg(1), HalfDeg(61), Deg(180), Deg(359)}

InitMoon ==
    /\ pc = "moon_input"
    /\ sun_longitude \in SunLongitudes
    /\ moon_longitude \in MoonLongitudes
    /\ moon_phase = NoResult
    /\ phase_branch = "none"
    /\ IdleAspect
    /\ IdleScore
    /\ IdleLibrary
    /\ IdleRequest

CalculateMoonPhase ==
    /\ pc = "moon_input"
    /\ moon_phase' = calculate_moon_phase(sun_longitude, moon_longitude)
    /\ phase_branch' = PhaseBranch(sun_longitude, moon_longitude)
    /\ pc' = "moon_done"
    /\ UNCHANGED <<sun_longitude, moon_longitude, aspectVars, scoreVars, libraryVars, requestVars>>

NextMoon == CalculateMoonPhase

SpecMoon == InitMoon /\ [][NextMoon]_vars

(***************************************************************************)
(* Aspect Engine: calculate_manual_synastry and calculate_transits         *)
(***************************************************************************)
\* the table with the harmony of the trine and of the square exchanged
ASPECT_HARMONY_exchanged ==
    "conjunction" :> 5 @@ "sextile" :> 7 @@ "square" :> 8 @@ "trine" :> (0 - 6)
        @@ "opposition" :> (0 - 5) @@ "quincunx" :> (0 - 3)

\* ASPECT_HARMONY
ASPECT_HARMONY ==
    "conjunction" :> 5 @@ "sextile" :> 7 @@ "square" :> (0 - 6) @@ "trine" :> 8
        @@ "opposition" :> (0 - 5) @@ "quincunx" :> (0 - 3)

\* the keys of a natal chart that the two engines read
ChartKeys == {"sun", "moon", "mercury", "venus", "mars", "jupiter", "saturn"}

\* str.capitalize() on a planet key
Capitalize ==
    "sun" :> "Sun" @@ "moon" :> "Moon" @@ "mercury" :> "Mercury"
        @@ "venus" :> "Venus" @@ "mars" :> "Mars" @@ "jupiter" :> "Jupiter"
        @@ "saturn" :> "Saturn"

\* planets, the list calculate_manual_synastry iterates over twice
synastry_planets == <<"sun", "moon", "venus", "mars", "mercury">>

\* natal_planets and transit_planets of calculate_transits
natal_planets == <<"sun", "moon", "mercury", "venus", "mars", "jupiter", "saturn">>
transit_planets == <<"sun", "moon", "mercury", "venus", "mars">>

\* a mutant of aspect_angles_synastry: the sextile window reaches into the
\* square window
aspect_angles_synastry_wide ==
    << [name |-> "conjunction", angle |-> 0,   orb |-> 8],
       [name |-> "sextile",     angle |-> 60,  orb |-> 30],
       [name |-> "square",      angle |-> 90,  orb |-> 6],
       [name |-> "trine",       angle |-> 120, orb |-> 8],
       [name |-> "opposition",  angle |-> 180, orb |-> 8] >>

\* aspect_angles of calculate_manual_synastry: name -> (angle, orb), in
\* insertion order
aspect_angles_synastry ==
    << [name |-> "conjunction", angle |-> 0,   orb |-> 8],
       [name |-> "sextile",     angle |-> 60,  orb |-> 6],
       [name |-> "square",      angle |-> 90,  orb |-> 6],
       [name |-> "trine",       angle |-> 120, orb |-> 8],
       [name |-> "opposition",  angle |-> 180, orb |-> 8] >>

\* aspect_angles of calculate_transits
aspect_angles_transits ==
    << [name |-> "conjunction", angle |-> 0,   orb |-> 8],
       [name |-> "sextile",     angle |-> 60,  orb |-> 5],
       [name |-> "square",      angle |-> 90,  orb |-> 6],
       [name |-> "trine",       angle |-> 120, orb |-> 7],
       [name |-> "opposition",  angle |-> 180, orb |-> 8] >>

\* a mutant of SynastryDiff: the distance is not folded back at 180
SynastryDiffNoFold(deg1, deg2) == Abs(deg1 - deg2)

\* calculate_manual_synastry: diff = abs(deg1 - deg2); if diff > 180: diff = 360 - diff
SynastryDiff(deg1, deg2) ==
    LET diff == Abs(deg1 - deg2)
    IN  IF diff > Deg(180) THEN Circle - diff ELSE diff

\* calculate_transits: diff = abs(transit_degree - natal_degree);
\* if diff > 180: diff = 360 - diff
TransitDiff(transit_degree, natal_degree) ==
    LET diff == Abs(transit_degree - natal_degree)
    IN  IF diff > Deg(180) THEN Circle - diff ELSE diff

\* abs(diff - angle), the deviation from a candidate's exact angle
Deviation(diff, candidate) == Abs(diff - Deg(candidate.angle))

\* a mutant of WithinOrb: the tolerance boundary is excluded
WithinOrbStrict(diff, candidate) == Deviation(diff, candidate) < Deg(candidate.orb)

\* if abs(diff - angle) <= orb
WithinOrb(diff, candidate) == Deviation(diff, candidate) <= Deg(candidate.orb)

\* the candidates of aspect_angles that are within their orb of diff
Matching(aspect_angles, diff) ==
    {i \in DOMAIN aspect_angles : WithinOrb(diff, aspect_angles[i])}

\* a mutant of FirstMatch: the matching candidate with the smallest deviation
BestMatch(aspect_angles, diff) ==
    LET m == Matching(aspect_angles, diff)
    IN  IF m = {} THEN 0
        ELSE CHOOSE i \in m : \A j \in m :
                \/ Deviation(diff, aspect_angles[i]) < Deviation(diff, aspect_angles[j])
                \/ (Deviation(diff, aspect_angles[i]) = Deviation(diff, aspect_angles[j])
                        /\ i <= j)

\* for aspect_name, (angle, orb) in aspect_angles.items(): if ...: append; break
\* the index of the candidate the loop stops at, 0 when it runs to the end
FirstMatch(aspect_angles, diff) ==
    LET m == Matching(aspect_angles, diff)
    IN  IF m = {} THEN 0 ELSE FirstOf(m)

\* dict.get(key) on a chart: the position, or None
ChartGet(chart, key) == IF key \in DOMAIN chart THEN chart[key] ELSE None

\* the body of the two planet loops of calculate_manual_synastry for one
\* (p1, p2): the list of the aspects it appends (none or one); the
\* aspect_symbol and interpretation texts are left out; orb in hundredths
SynastryPair(c1, c2, p1, p2) ==
    IF ChartGet(c1, p1) # None /\ ChartGet(c2, p2) # None
    THEN LET diff == SynastryDiff(c1[p1].degree, c2[p2].degree)
             i    == FirstMatch(aspect_angles_synastry, diff)
         IN  IF i = 0 THEN << >>
             ELSE << [person1_planet |-> c1[p1].planet_name,
                      person2_planet |-> c2[p2].planet_name,
                      aspect_type    |-> aspect_angles_synastry[i].name,
                      orb            |-> Round2(Deviation(diff, aspect_angles_synastry[i])),
                      harmony_score  |-> ASPECT_HARMONY[aspect_angles_synastry[i].name]] >>
    ELSE << >>

\* the k-th (p1, p2) of "for p1 in planets: for p2 in planets", k from 1
SynastryPairAt(k) ==
    << synastry_planets[((k - 1) \div Len(synastry_planets)) + 1],
       synastry_planets[((k - 1) % Len(synastry_planets)) + 1] >>

RECURSIVE ManualSynastryFrom(_, _, _)
\* the aspects appended from the k-th pair on
ManualSynastryFrom(c1, c2, k) ==
    IF k > Len(synastry_planets) * Len(synastry_planets) THEN << >>
    ELSE SynastryPair(c1, c2, SynastryPairAt(k)[1], SynastryPairAt(k)[2])
            \o ManualSynastryFrom(c1, c2, k + 1)

\* AstrologyService.calculate_manual_synastry(chart1, chart2)
calculate_manual_synastry(c1, c2) == ManualSynastryFrom(c1, c2, 1)

\* current_positions of calculate_transits: the degree of every transit planet
\* get_planet_data returned a position for
CurrentPositions(sky) ==
    [p \in {q \in {transit_planets[i] : i \in DOMAIN transit_planets} :
                ChartGet(sky, q) # None} |-> sky[p].degree]

\* the body of the two planet loops of calculate_transits for one
\* (transit_planet, natal_planet); natal_sign, aspect_symbol and interpretation
\* are left out; orb in tenths
TransitPair(positions, natal, tp, np) ==
    IF tp \in DOMAIN positions /\ ChartGet(natal, np) # None
    THEN LET diff == TransitDiff(positions[tp], natal[np].degree)
             i    == FirstMatch(aspect_angles_transits, diff)
         IN  IF i = 0 THEN << >>
             ELSE << [transiting_planet |-> Capitalize[tp],
                      natal_planet      |-> natal[np].planet_name,
                      aspect            |-> aspect_angles_transits[i].name,
                      orb               |-> Round1(Deviation(diff, aspect_angles_transits[i])),
                      harmony           |-> ASPECT_HARMONY[aspect_angles_transits[i].name],
                      is_harmonious     |-> ASPECT_HARMONY[aspect_angles_transits[i].name] > 0] >>
    ELSE << >>

\* the k-th (transit_planet, natal_planet) of the nested loops, k from 1
TransitPairAt(k) ==
    << transit_planets[((k - 1) \div Len(natal_planets)) + 1],
       natal_planets[((k - 1) % Len(natal_planets)) + 1] >>

RECURSIVE DetectTransitsFrom(_, _, _)
\* the transit aspects appended from the k-th pair on
DetectTransitsFrom(positions, natal, k) ==
    IF k > Len(transit_planets) * Len(natal_planets) THEN << >>
    ELSE TransitPair(positions, natal, TransitPairAt(k)[1], TransitPairAt(k)[2])
            \o DetectTransitsFrom(positions, natal, k + 1)

\* a mutant of InsertByOrb: x goes in front of the elements of equal orb
InsertByOrbBeforeEqual(sorted, x) ==
    LET k == Cardinality({i \in DOMAIN sorted : sorted[i].orb < x.orb})
    IN  SubSeq(sorted, 1, k) \o <<x>> \o SubSeq(sorted, k + 1, Len(sorted))

\* one step of the stable sort: x goes behind every element whose orb is not larger
InsertByOrb(sorted, x) ==
    LET k == Cardinality({i \in DOMAIN sorted : sorted[i].orb <= x.orb})
    IN  SubSeq(sorted, 1, k) \o <<x>> \o SubSeq(sorted, k + 1, Len(sorted))

RECURSIVE SortedPrefix(_, _)
\* the first n elements of s, sorted
SortedPrefix(s, n) ==
    IF n = 0 THEN << >> ELSE InsertByOrb(SortedPrefix(s, n - 1), s[n])

\* transit_aspects.sort(key=lambda x: x["orb"]): ascending and stable
SortByOrb(s) == SortedPrefix(s, Len(s))

\* s[:n]
Take(s, n) == SubSeq(s, 1, Min(n, Len(s)))

\* planet_areas of determine_focus_areas
planet_areas ==
    "Sun" :> <<"identity", "vitality", "purpose">>
        @@ "Moon" :> <<"emotions", "home", "intuition">>
        @@ "Mercury" :> <<"communication", "learning", "travel">>
        @@ "Venus" :> <<"love", "beauty", "values">>
        @@ "Mars" :> <<"action", "energy", "ambition">>
        @@ "Jupiter" :> <<"expansion", "luck", "wisdom">>
        @@ "Saturn" :> <<"discipline", "responsibility", "structure">>

\* the set focus_areas after the loop over transits[:5]
FocusSet(transits) ==
    UNION { IF transits[i].natal_planet \in DOMAIN planet_areas
            THEN {planet_areas[transits[i].natal_planet][j] : j \in 1..2}
            ELSE {} : i \in 1..Min(5, Len(transits)) }

RECURSIVE Arrangements(_, _)
\* the sequences of n members of S, each member at most once
Arrangements(S, n) ==
    IF n = 0 THEN {<< >>}
    ELSE UNION { {Append(l, x) : x \in S \ {l[i] : i \in DOMAIN l}} :
                 l \in Arrangements(S, n - 1) }

\* list(a_set)[:n], every list it can give: a set of strings iterates in the
\* order of its hash table, which the hash seed of the process and the
\* insertions decide, so the members come once each in any order
ListOfSet(S, n) == Arrangements(S, Min(n, Cardinality(S)))

\* a mutant of determine_focus_areas: the list is cut one entry later
determine_focus_areas_cut_late(transits) == ListOfSet(FocusSet(transits), 6)

\* AstrologyService.determine_focus_areas(transits): every list it can return
determine_focus_areas(transits) == ListOfSet(FocusSet(transits), 5)

RECURSIVE SumHarmony(_, _)
\* sum(a["harmony"] for a in the first n transit aspects)
SumHarmony(s, n) == IF n = 0 THEN 0 ELSE SumHarmony(s, n - 1) + s[n].harmony

\* a mutant of EnergyType: the harmony of the 10 returned aspects only
EnergyTypeOfReturned(s) ==
    LET total_harmony == SumHarmony(s, Min(10, Len(s)))
    IN  IF Len(s) > 0 /\ total_harmony > 0 THEN "harmonious"
        ELSE IF Len(s) > 0 /\ total_harmony < 0 THEN "challenging"
        ELSE "neutral"

\* energy_type, from the sign of avg_harmony = total_harmony / len(transit_aspects)
EnergyType(s) ==
    LET total_harmony == SumHarmony(s, Len(s))
    IN  IF Len(s) > 0 /\ total_harmony > 0 THEN "harmonious"
        ELSE IF Len(s) > 0 /\ total_harmony < 0 THEN "challenging"
        ELSE "neutral"

\* round(avg_harmony, 2), in hundredths
HarmonyScore(s) ==
    LET total_harmony == SumHarmony(s, Len(s))
    IN  IF Len(s) = 0 THEN 0
        ELSE IF total_harmony >= 0 THEN RoundHalfEven(100 * total_harmony, Len(s))
        ELSE 0 - RoundHalfEven(100 * (0 - total_harmony), Len(s))

\* the moon phase get_current_sky_data reports: a missing Sun or Moon counts
\* as degree 0
SkyMoonPhase(sky) ==
    calculate_moon_phase(
        IF ChartGet(sky, "sun") # None THEN sky["sun"].degree ELSE 0,
        IF ChartGet(sky, "moon") # None THEN sky["moon"].degree ELSE 0)

\* transit_aspects of calculate_transits after the sort
SortedTransits(natal, sky) ==
    SortByOrb(DetectTransitsFrom(CurrentPositions(sky), natal, 1))

\* every record AstrologyService.calculate_transits can return (date and
\* current_moon_sign left out): one for each list determine_focus_areas can
\* return
calculate_transits(natal, sky) ==
    LET sorted        == SortedTransits(natal, sky)
        transits      == Take(sorted, 10)
        energy_type   == EnergyType(sorted)
        harmony_score == HarmonyScore(sorted)
        moon_phase_   == SkyMoonPhase(sky)
    IN  { [transits           |-> transits,
           focus_areas        |-> focus_areas,
           overall_energy     |-> energy_type,
           harmony_score      |-> harmony_score,
           current_moon_phase |-> moon_phase_] :
          focus_areas \in determine_focus_areas(sorted) }

(***************************************************************************)
(* Inputs of the aspect specification                                      *)
(***************************************************************************)
\* the element of the sign a longitude lies in (signs are 30 degrees wide and
\* run Fire, Earth, Air, Water from Aries on)
ElementAt(degree) ==
    <<"Fire", "Earth", "Air", "Water">>[((degree \div Deg(30)) % 4) + 1]

\* the position a chart holds for a planet
Position(key, degree) ==
    [planet_name |-> Capitalize[key], degree |-> degree, element |-> ElementAt(degree)]

\* an eighth of a degree
Eighth == Unit \div 8

\* marks a planet the ephemeris returned nothing for
Absent == 0 - 1

\* the offsets of the planets from the chart's base longitude
PatternFull ==
    "sun" :> 0 @@ "moon" :> (Deg(60) + Eighth) @@ "mercury" :> HalfDeg(373)
        @@ "venus" :> (Deg(90) + 2 * Eighth) @@ "mars" :> Deg(128)
        @@ "jupiter" :> Deg(66) @@ "saturn" :> Deg(240)

PatternSparse ==
    "sun" :> 0 @@ "moon" :> Absent @@ "mercury" :> Absent
        @@ "venus" :> Deg(120) @@ "mars" :> Absent
        @@ "jupiter" :> Absent @@ "saturn" :> HalfDeg(7)

PatternEmpty == [k \in ChartKeys |-> Absent]

\* the chart with the given base longitude and pattern
MakeChart(base, pattern) ==
    [k \in ChartKeys |->
        IF pattern[k] = Absent THEN None
        ELSE Position(k, (base + pattern[k]) % Circle)]

Bases1 == {0, HalfDeg(711)}
Patterns1 == {PatternFull, PatternSparse}
Bases2 == HalfDegreeGrid
Patterns2 == {PatternFull, PatternSparse, PatternEmpty}

\* the skies of the transit calls
TransitSkies == {MakeChart(b, p) : b \in Bases1, p \in Patterns1}

\* the natal base longitudes of the transit calls: the Sun of the natal chart
\* stands at the edge of a transit window, half a degree outside it, or at
\* one of the distances of the worked examples from a Sun at 0; at 29
\* degrees it stands 61.25 degrees from the Venus of the full sky, and at 94
\* degrees the 10 tightest transits and all detected ones differ in the sign
\* of their harmony
TransitEdges ==
    UNION { { Deg(aspect_angles_transits[i].angle)
                  + s * (Deg(aspect_angles_transits[i].orb) + h) :
              s \in {0 - 1, 1}, h \in {0, HalfDeg(1)} } :
            i \in DOMAIN aspect_angles_transits }
TransitExamples == {Deg(29), Deg(60), HalfDeg(123), Deg(66), Deg(90), Deg(94), Deg(128)}
TransitBases == {b \in HalfDegreeGrid : b \in TransitEdges \cup TransitExamples}

\* the most keywords the 5 tightest transits of a transit call give
MaxFocusKeywords == 6

\* the (sky, natal chart) of the transit calls
TransitInputs ==
    { input \in TransitSkies \X {MakeChart(b, p) : b \in TransitBases, p \in Patterns2} :
        Cardinality(FocusSet(SortedTransits(input[2], input[1]))) <= MaxFocusKeywords }

IdleMoon ==
    /\ sun_longitude = Idle
    /\ moon_longitude = Idle
    /\ moon_phase = Idle
    /\ phase_branch = Idle

InitAspect ==
    /\ \/ /\ pc = "synastry_input"
          /\ \E b1 \in Bases1, p1 \in Patterns1 : chart1 = MakeChart(b1, p1)
          /\ \E b2 \in Bases2, p2 \in Patterns2 : chart2 = MakeChart(b2, p2)
       \/ /\ pc = "transit_input"
          /\ \E input \in TransitInputs : chart1 = input[1] /\ chart2 = input[2]
    /\ current_sky = chart1
    /\ synastry_aspects = << >>
    /\ transit_aspects = << >>
    /\ transit_summary = NoResult
    /\ IdleMoon
    /\ IdleScore
    /\ IdleLibrary
    /\ IdleRequest

\* the fallback of calculate_synastry: calculate_manual_synastry(chart1, chart2)
ManualSynastry ==
    /\ pc = "synastry_input"
    /\ synastry_aspects' = calculate_manual_synastry(chart1, chart2)
    /\ pc' = "synastry_done"
    /\ UNCHANGED <<chart1, chart2, current_sky, transit_aspects,
                   transit_summary, moonVars, scoreVars, libraryVars, requestVars>>

\* calculate_transits(natal_chart = chart2, target_date) under the sky current_sky
CalculateTransits ==
    /\ pc = "transit_input"
    /\ transit_aspects' = SortedTransits(chart2, current_sky)
    /\ transit_summary' \in calculate_transits(chart2, current_sky)
    /\ pc' = "transits_done"
    /\ UNCHANGED <<chart1, chart2, current_sky, synastry_aspects,
                   moonVars, scoreVars, libraryVars, requestVars>>

NextAspect == ManualSynastry \/ CalculateTransits

SpecAspect == InitAspect /\ [][NextAspect]_vars

(***************************************************************************)
(* Synastry Scoring Engine                                                 *)
(*   SynastryAnalysisService.calculate_weighted_score                      *)
(*   AstrologyService.calculate_compatibility_scores                       *)
(* An orb is a count of hundredths, as round(x, 2) leaves it; weights, orb *)
(* modifiers, final scores and raw totals are floats.                      *)
(***************************************************************************)
\* a / 2 for a float a that is not zero
Halved(a) == [a EXCEPT !.exp = @ - 1]

\* the float constants of calculate_weighted_score
Float0_5 == Halved(FloatOfInt(1))
Float1 == FloatOfInt(1)
Float2 == FloatOfInt(2)
Float2_5 == Halved(FloatOfInt(5))
Float3 == FloatOfInt(3)
Float10 == FloatOfInt(10)
Float50 == FloatOfInt(50)

\* str.lower of one character: the 26 ASCII capitals have a lower-case letter,
\* every other ASCII character is its own
LowerChar(c) ==
    CASE c = "A" -> "a" [] c = "B" -> "b" [] c = "C" -> "c" [] c = "D" -> "d"
      [] c = "E" -> "e" [] c = "F" -> "f" [] c = "G" -> "g" [] c = "H" -> "h"
      [] c = "I" -> "i" [] c = "J" -> "j" [] c = "K" -> "k" [] c = "L" -> "l"
      [] c = "M" -> "m" [] c = "N" -> "n" [] c = "O" -> "o" [] c = "P" -> "p"
      [] c = "Q" -> "q" [] c = "R" -> "r" [] c = "S" -> "s" [] c = "T" -> "t"
      [] c = "U" -> "u" [] c = "V" -> "v" [] c = "W" -> "w" [] c = "X" -> "x"
      [] c = "Y" -> "y" [] c = "Z" -> "z"
      [] OTHER -> c

\* str.lower of an ASCII string, character by character
RECURSIVE Lower(_)
Lower(name) ==
    IF name = "" THEN "" ELSE LowerChar(Head(name)) \o Lower(Tail(name))

\* a mutant of ASPECT_BASE_SCORES: the generic scores are those of the harmony
\* table of the other scoring function
ASPECT_BASE_SCORES_harmony ==
    "conjunction" :> [harmonious |-> 5, challenging |-> (0 - 3)]
        @@ "trine" :> 8 @@ "sextile" :> 7 @@ "square" :> (0 - 6)
        @@ "opposition" :> (0 - 5) @@ "quincunx" :> (0 - 3)

\* ASPECT_BASE_SCORES; the conjunction entry is the dict of its two scores
ASPECT_BASE_SCORES ==
    "conjunction" :> [harmonious |-> 10, challenging |-> (0 - 3)]
        @@ "trine" :> 8 @@ "sextile" :> 5 @@ "square" :> (0 - 6)
        @@ "opposition" :> (0 - 4) @@ "quincunx" :> (0 - 2)

\* PLANET_PAIR_WEIGHTS: weight (in tenths), category (the meaning text left out)
PLANET_PAIR_WEIGHTS ==
    <<"Sun", "Sun">> :> [weight |-> 15, category |-> "emotional"] @@
        <<"Sun", "Moon">> :> [weight |-> 20, category |-> "emotional"] @@
        <<"Moon", "Sun">> :> [weight |-> 20, category |-> "emotional"] @@
        <<"Moon", "Moon">> :> [weight |-> 18, category |-> "emotional"] @@
        <<"Venus", "Mars">> :> [weight |-> 20, category |-> "chemistry"] @@
        <<"Mars", "Venus">> :> [weight |-> 20, category |-> "chemistry"] @@
        <<"Venus", "Venus">> :> [weight |-> 15, category |-> "chemistry"] @@
        <<"Mars", "Mars">> :> [weight |-> 12, category |-> "chemistry"] @@
        <<"Sun", "Venus">> :> [weight |-> 13, category |-> "chemistry"] @@
        <<"Venus", "Sun">> :> [weight |-> 13, category |-> "chemistry"] @@
        <<"Moon", "Venus">> :> [weight |-> 14, category |-> "emotional"] @@
        <<"Venus", "Moon">> :> [weight |-> 14, category |-> "emotional"] @@
        <<"Mercury", "Mercury">> :> [weight |-> 12, category |-> "intellectual"] @@
        <<"Mercury", "Sun">> :> [weight |-> 10, category |-> "intellectual"] @@
        <<"Sun", "Mercury">> :> [weight |-> 10, category |-> "intellectual"] @@
        <<"Mercury", "Moon">> :> [weight |-> 11, category |-> "emotional"] @@
        <<"Moon", "Mercury">> :> [weight |-> 11, category |-> "emotional"] @@
        <<"Mercury", "Venus">> :> [weight |-> 9, category |-> "intellectual"] @@
        <<"Venus", "Mercury">> :> [weight |-> 9, category |-> "intellectual"] @@
        <<"Saturn", "Sun">> :> [weight |-> 15, category |-> "challenges"] @@
        <<"Sun", "Saturn">> :> [weight |-> 15, category |-> "challenges"] @@
        <<"Saturn", "Moon">> :> [weight |-> 16, category |-> "challenges"] @@
        <<"Moon", "Saturn">> :> [weight |-> 16, category |-> "challenges"] @@
        <<"Saturn", "Venus">> :> [weight |-> 14, category |-> "challenges"] @@
        <<"Venus", "Saturn">> :> [weight |-> 14, category |-> "challenges"] @@
        <<"Saturn", "Mars">> :> [weight |-> 13, category |-> "challenges"] @@
        <<"Mars", "Saturn">> :> [weight |-> 13, category |-> "challenges"] @@
        <<"Pluto", "Sun">> :> [weight |-> 15, category |-> "challenges"] @@
        <<"Sun", "Pluto">> :> [weight |-> 15, category |-> "challenges"] @@
        <<"Pluto", "Moon">> :> [weight |-> 16, category |-> "challenges"] @@
        <<"Moon", "Pluto">> :> [weight |-> 16, category |-> "challenges"] @@
        <<"Pluto", "Venus">> :> [weight |-> 14, category |-> "chemistry"] @@
        <<"Venus", "Pluto">> :> [weight |-> 14, category |-> "chemistry"] @@
        <<"Pluto", "Mars">> :> [weight |-> 13, category |-> "chemistry"] @@
        <<"Mars", "Pluto">> :> [weight |-> 13, category |-> "chemistry"] @@
        <<"Jupiter", "Sun">> :> [weight |-> 12, category |-> "emotional"] @@
        <<"Sun", "Jupiter">> :> [weight |-> 12, category |-> "emotional"] @@
        <<"Jupiter", "Moon">> :> [weight |-> 11, category |-> "emotional"] @@
        <<"Moon", "Jupiter">> :> [weight |-> 11, category |-> "emotional"] @@
        <<"Jupiter", "Venus">> :> [weight |-> 13, category |-> "chemistry"] @@
        <<"Venus", "Jupiter">> :> [weight |-> 13, category |-> "chemistry"] @@
        <<"Uranus", "Sun">> :> [weight |-> 10, category |-> "challenges"] @@
        <<"Sun", "Uranus">> :> [weight |-> 10, category |-> "challenges"] @@
        <<"Uranus", "Moon">> :> [weight |-> 11, category |-> "challenges"] @@
        <<"Moon", "Uranus">> :> [weight |-> 11, category |-> "challenges"] @@
        <<"Uranus", "Venus">> :> [weight |-> 12, category |-> "chemistry"] @@
        <<"Venus", "Uranus">> :> [weight |-> 12, category |-> "chemistry"] @@
        <<"Neptune", "Sun">> :> [weight |-> 10, category |-> "emotional"] @@
        <<"Sun", "Neptune">> :> [weight |-> 10, category |-> "emotional"] @@
        <<"Neptune", "Moon">> :> [weight |-> 12, category |-> "emotional"] @@
        <<"Moon", "Neptune">> :> [weight |-> 12, category |-> "emotional"] @@
        <<"Neptune", "Venus">> :> [weight |-> 13, category |-> "chemistry"] @@
        <<"Venus", "Neptune">> :> [weight |-> 13, category |-> "chemistry"]

\* SPECIAL_ASPECT_SCORES
SPECIAL_ASPECT_SCORES ==
    <<"Sun", "Moon", "conjunction">> :> 15 @@
        <<"Sun", "Moon", "trine">> :> 12 @@
        <<"Sun", "Moon", "sextile">> :> 8 @@
        <<"Sun", "Moon", "square">> :> (0 - 5) @@
        <<"Sun", "Moon", "opposition">> :> (0 - 3) @@
        <<"Venus", "Mars", "conjunction">> :> 15 @@
        <<"Venus", "Mars", "trine">> :> 12 @@
        <<"Venus", "Mars", "sextile">> :> 10 @@
        <<"Venus", "Mars", "square">> :> 5 @@
        <<"Venus", "Mars", "opposition">> :> 8 @@
        <<"Saturn", "Sun", "trine">> :> 8 @@
        <<"Saturn", "Sun", "sextile">> :> 6 @@
        <<"Saturn", "Sun", "conjunction">> :> (0 - 3) @@
        <<"Saturn", "Sun", "square">> :> (0 - 10) @@
        <<"Saturn", "Sun", "opposition">> :> (0 - 8) @@
        <<"Pluto", "Sun", "trine">> :> 6 @@
        <<"Pluto", "Sun", "square">> :> (0 - 8) @@
        <<"Pluto", "Venus", "conjunction">> :> 10 @@
        <<"Pluto", "Venus", "square">> :> (0 - 6) @@
        <<"Mercury", "Mercury", "conjunction">> :> 8 @@
        <<"Mercury", "Mercury", "trine">> :> 6 @@
        <<"Mercury", "Mercury", "square">> :> (0 - 5)

\* the pair_info used when the pair is listed in neither order
DefaultPairInfo == [weight |-> 5, category |-> "emotional"]

\* pair_info = PLANET_PAIR_WEIGHTS.get(pair_key) or PLANET_PAIR_WEIGHTS.get(reverse_key),
\* and the default when neither is listed
PairInfo(p1, p2) ==
    LET entry == IF <<p1, p2>> \in DOMAIN PLANET_PAIR_WEIGHTS
                 THEN PLANET_PAIR_WEIGHTS[<<p1, p2>>]
                 ELSE IF <<p2, p1>> \in DOMAIN PLANET_PAIR_WEIGHTS
                 THEN PLANET_PAIR_WEIGHTS[<<p2, p1>>]
                 ELSE DefaultPairInfo
    IN  [weight |-> FloatOfTenths(entry.weight), category |-> entry.category]

\* a mutant of BaseScore: the reversed special key is not looked up
BaseScoreForwardOnly(p1, p2, aspect_type) ==
    IF <<p1, p2, aspect_type>> \in DOMAIN SPECIAL_ASPECT_SCORES
    THEN SPECIAL_ASPECT_SCORES[<<p1, p2, aspect_type>>]
    ELSE IF aspect_type \notin DOMAIN ASPECT_BASE_SCORES THEN 0
    ELSE IF aspect_type = "conjunction"
    THEN IF p1 \in {"Saturn", "Pluto"} \/ p2 \in {"Saturn", "Pluto"}
         THEN ASPECT_BASE_SCORES[aspect_type].challenging
         ELSE ASPECT_BASE_SCORES[aspect_type].harmonious
    ELSE ASPECT_BASE_SCORES[aspect_type]

\* base_score: the special score in either planet order, else the default
\* score of the aspect type (0 for a type ASPECT_BASE_SCORES does not list)
BaseScore(p1, p2, aspect_type) ==
    IF <<p1, p2, aspect_type>> \in DOMAIN SPECIAL_ASPECT_SCORES
    THEN SPECIAL_ASPECT_SCORES[<<p1, p2, aspect_type>>]
    ELSE IF <<p2, p1, aspect_type>> \in DOMAIN SPECIAL_ASPECT_SCORES
    THEN SPECIAL_ASPECT_SCORES[<<p2, p1, aspect_type>>]
    ELSE IF aspect_type \notin DOMAIN ASPECT_BASE_SCORES THEN 0
    ELSE IF aspect_type = "conjunction"
    THEN IF p1 \in {"Saturn", "Pluto"} \/ p2 \in {"Saturn", "Pluto"}
         THEN ASPECT_BASE_SCORES[aspect_type].challenging
         ELSE ASPECT_BASE_SCORES[aspect_type].harmonious
    ELSE ASPECT_BASE_SCORES[aspect_type]

\* a mutant of OrbModifier: the floor of 0.5 is left out
OrbModifierNoFloor(orb) == FloatSub(Float1, FloatDiv(orb, Float10))

\* orb_modifier = max(0.5, 1 - (orb / 10))
OrbModifier(orb) == FloatMax(Float0_5, FloatSub(Float1, FloatDiv(orb, Float10)))

\* the locals of one loop iteration up to base_score; the orb of the aspect
\* is the float nearest to its count of hundredths
LookedUp(aspect, aspect_type, pair_info) ==
    [aspect_type |-> aspect_type,
     orb         |-> FloatOfHundredths(aspect.orb),
     weight      |-> pair_info.weight,
     category    |-> pair_info.category,
     base_score  |-> BaseScore(aspect.person1_planet, aspect.person2_planet, aspect_type)]

\* final_score = base_score * weight * orb_modifier
WithFinalScore(l, orb_modifier) ==
    [aspect_type  |-> l.aspect_type,
     orb          |-> l.orb,
     weight       |-> l.weight,
     category     |-> l.category,
     base_score   |-> l.base_score,
     orb_modifier |-> orb_modifier,
     final_score  |-> FloatMul(FloatMul(FloatOfInt(l.base_score), l.weight), orb_modifier)]

\* the locals of one loop iteration over an aspect
AspectLocals(aspect) ==
    WithFinalScore(
        LookedUp(aspect, Lower(aspect.aspect_type),
                 PairInfo(aspect.person1_planet, aspect.person2_planet)),
        OrbModifier(FloatOfHundredths(aspect.orb)))

RECURSIVE LoopLocals(_, _)
\* the locals of the first n iterations of "for aspect in aspects"
LoopLocals(aspect_list, n) ==
    IF n = 0 THEN << >>
    ELSE Append(LoopLocals(aspect_list, n - 1), AspectLocals(aspect_list[n]))

RECURSIVE SumSeq(_)
\* the sum of a sequence of integers
SumSeq(s) == IF s = << >> THEN 0 ELSE s[1] + SumSeq(Tail(s))

RECURSIVE FloatSumTo(_, _)
\* total += s[i] for i = 1..n in this order, from total = 0
FloatSumTo(s, n) == IF n = 0 THEN FloatZero ELSE FloatAdd(FloatSumTo(s, n - 1), s[n])

\* the raw total of a category when the loop is done: the final scores of its
\* aspects added in list order
CategoryRaw(locals, category) ==
    FloatSumTo([i \in DOMAIN locals |->
                   IF locals[i].category = category THEN locals[i].final_score
                   ELSE FloatZero],
               Len(locals))

\* chart.get(key, {}).get("element", ""): the element of a body of a chart; a
\* key the chart lacks gives ""
ElementOf(chart, key) == IF key \in DOMAIN chart THEN chart[key].element ELSE ""

\* chart.get(key, {}) is None for a body the chart holds as None, and
\* None.get raises AttributeError
ElementLookupRaises(c1, c2) ==
    \E c \in {c1, c2}, key \in {"sun", "moon"} : key \in DOMAIN c /\ c[key] = None

\* SynastryAnalysisService._elements_compatible
elements_compatible(elem1, elem2) ==
    <<elem1, elem2>> \in {<<"Fire", "Air">>, <<"Air", "Fire">>,
                          <<"Earth", "Water">>, <<"Water", "Earth">>}

\* max(lo, min(hi, x))
Clamp(x, lo, hi) == Max(lo, Min(hi, x))

\* a mutant of Normalize: the result is not clamped
NormalizeNoClamp(raw_score, scale) ==
    FloatTrunc(FloatAdd(Float50, FloatMul(raw_score, scale)))

\* normalize(raw_score, 50, scale) = max(0, min(100, int(50 + raw_score * scale)))
Normalize(raw_score, scale) ==
    Clamp(FloatTrunc(FloatAdd(Float50, FloatMul(raw_score, scale))), 0, 100)

\* the locals of calculate_weighted_score when the loop, with the locals of
\* its iterations, and the element bonus are done
Totals(locals, sun1_elem, sun2_elem, moon1_elem, moon2_elem) ==
    LET sun_bonus  == IF sun1_elem = sun2_elem THEN 8
                      ELSE IF elements_compatible(sun1_elem, sun2_elem) THEN 4 ELSE 0
        moon_bonus == IF moon1_elem = moon2_elem THEN 6
                      ELSE IF elements_compatible(moon1_elem, moon2_elem) THEN 3 ELSE 0
        moon_raw   == IF moon1_elem = moon2_elem THEN 5
                      ELSE IF elements_compatible(moon1_elem, moon2_elem) THEN 3 ELSE 0
    IN  [per_aspect           |-> locals,
         chemistry_raw        |-> CategoryRaw(locals, "chemistry"),
         emotional_raw        |-> FloatAdd(CategoryRaw(locals, "emotional"),
                                           FloatOfInt(moon_raw)),
         intellectual_raw     |-> CategoryRaw(locals, "intellectual"),
         challenges_raw       |-> CategoryRaw(locals, "challenges"),
         element_bonus        |-> sun_bonus + moon_bonus,
         total_weighted_score |->
             FloatAdd(FloatSumTo([i \in DOMAIN locals |-> locals[i].final_score],
                                 Len(locals)),
                      FloatOfInt(sun_bonus + moon_bonus)),
         max_possible_score   |->
             FloatSumTo([i \in DOMAIN locals |->
                            FloatAbs(FloatMul(FloatOfInt(locals[i].base_score),
                                              locals[i].weight))],
                        Len(locals)),
         sun_match            |-> sun1_elem = sun2_elem,
         moon_match           |-> moon1_elem = moon2_elem]

\* the locals of calculate_weighted_score when the loop and the element bonus
\* are done
WeightedLocals(aspect_list, c1, c2) ==
    Totals(LoopLocals(aspect_list, Len(aspect_list)),
           ElementOf(c1, "sun"), ElementOf(c2, "sun"),
           ElementOf(c1, "moon"), ElementOf(c2, "moon"))

\* a mutant of Overall: the clamp to [15, 95] is left out
OverallNoClamp(total_weighted_score, max_possible_score) ==
    IF FloatSign(max_possible_score) > 0
    THEN FloatTrunc(FloatAdd(Float50,
             FloatMul(FloatDiv(total_weighted_score, max_possible_score), Float50)))
    ELSE 50

\* overall = int(50 + (total_weighted_score / max_possible_score) * 50) if
\* max_possible_score > 0 else 50, then max(15, min(95, overall))
Overall(total_weighted_score, max_possible_score) ==
    Clamp(IF FloatSign(max_possible_score) > 0
          THEN FloatTrunc(FloatAdd(Float50,
                   FloatMul(FloatDiv(total_weighted_score, max_possible_score), Float50)))
          ELSE 50,
          15, 95)

\* round(final_score, 1) as a count of tenths
RoundScore(final_score) == FloatRound(final_score, 10)

\* aspect_desc of a loop iteration (the meaning text left out): score and orb
\* in tenths
AspectDesc(aspect, locals) ==
    [planets |-> <<aspect.person1_planet, locals.aspect_type, aspect.person2_planet>>,
     score   |-> RoundScore(locals.final_score),
     orb     |-> FloatRound(locals.orb, 10)]

\* the list a loop iteration appends its aspect_desc to: "chemistry",
\* "emotional", "intellectual", "challenge", or "none"
BucketOf(locals) ==
    IF locals.category \in {"chemistry", "emotional", "intellectual"}
    THEN IF FloatSign(locals.final_score) > 0 THEN locals.category
         ELSE IF FloatLess(locals.final_score, FloatOfInt(0 - 3)) THEN "challenge"
         ELSE "none"
    ELSE IF locals.category = "challenges"
    THEN IF FloatSign(locals.final_score) < 0 THEN "challenge" ELSE "emotional"
    ELSE "none"

\* the aspect_desc of the iterations of the list members
DescList(aspect_list, per_aspect, members) ==
    [k \in DOMAIN members |->
        AspectDesc(aspect_list[members[k]], per_aspect[members[k]])]

\* one of the four description lists when the loop is done
BucketList(aspect_list, per_aspect, bucket) ==
    DescList(aspect_list, per_aspect,
             SelectSeq([i \in DOMAIN aspect_list |-> i],
                       LAMBDA i : BucketOf(per_aspect[i]) = bucket))

\* a mutant of InsertDescending: x goes to the end
InsertAtEnd(sorted, x) == sorted \o <<x>>

\* one step of the stable descending sort: x goes behind every element whose
\* score is not smaller
InsertDescending(sorted, x) ==
    LET k == Cardinality({i \in DOMAIN sorted : sorted[i].score >= x.score})
    IN  SubSeq(sorted, 1, k) \o <<x>> \o SubSeq(sorted, k + 1, Len(sorted))

\* one step of the stable ascending sort
InsertAscending(sorted, x) ==
    LET k == Cardinality({i \in DOMAIN sorted : sorted[i].score <= x.score})
    IN  SubSeq(sorted, 1, k) \o <<x>> \o SubSeq(sorted, k + 1, Len(sorted))

RECURSIVE SortedByScore(_, _, _)
\* sorted(s[:n], key=lambda x: x["score"], reverse=descending)
SortedByScore(s, n, descending) ==
    IF n = 0 THEN << >>
    ELSE IF descending THEN InsertDescending(SortedByScore(s, n - 1, descending), s[n])
    ELSE InsertAscending(SortedByScore(s, n - 1, descending), s[n])

\* sorted(bucket, key=lambda x: x["score"], reverse=True)[:n]
TopDescending(s, n) == Take(SortedByScore(s, Len(s), TRUE), n)

\* sorted(bucket, key=lambda x: x["score"])[:n]
TopAscending(s, n) == Take(SortedByScore(s, Len(s), FALSE), n)

\* the record calculate_weighted_score returns from its locals
WeightedResult(aspect_list, l) ==
    [overall          |-> Overall(l.total_weighted_score, l.max_possible_score),
     chemistry        |-> Normalize(l.chemistry_raw, Float2_5),
     emotional        |-> Normalize(l.emotional_raw, Float2_5),
     intellectual     |-> Normalize(l.intellectual_raw, Float3),
     challenges_score |->
         Clamp(FloatTrunc(FloatSub(Float50, FloatMul(l.challenges_raw, Float2))), 0, 100),
     chemistry_aspects    |->
         TopDescending(BucketList(aspect_list, l.per_aspect, "chemistry"), 5),
     emotional_aspects    |->
         TopDescending(BucketList(aspect_list, l.per_aspect, "emotional"), 5),
     intellectual_aspects |->
         TopDescending(BucketList(aspect_list, l.per_aspect, "intellectual"), 3),
     challenge_aspects    |->
         TopAscending(BucketList(aspect_list, l.per_aspect, "challenge"), 5),
     element_compatibility |->
         [sun_match |-> l.sun_match, moon_match |-> l.moon_match,
          bonus |-> l.element_bonus]]

\* the record calculate_weighted_score returns, or the error it raises
calculate_weighted_score(aspect_list, c1, c2) ==
    IF ElementLookupRaises(c1, c2) THEN [error |-> "AttributeError"]
    ELSE WeightedResult(aspect_list, WeightedLocals(aspect_list, c1, c2))

\* the planet lists of calculate_compatibility_scores
emotional_planets == {"Moon", "Venus", "Neptune"}
intellectual_planets == {"Mercury", "Jupiter", "Uranus"}
physical_planets == {"Mars", "Venus", "Sun"}
spiritual_planets == {"Neptune", "Jupiter", "Pluto"}

\* the sum of harmony * 3 over the aspects with a planet in the given list
CategoryHarmony(aspect_list, planets) ==
    SumSeq([i \in DOMAIN aspect_list |->
                IF aspect_list[i].person1_planet \in planets
                      \/ aspect_list[i].person2_planet \in planets
                THEN aspect_list[i].harmony_score * 3 ELSE 0])

\* normalize(score) of calculate_compatibility_scores: max(0, min(100, int(score)))
normalize_score(score) == Max(0, Min(100, score))

\* the record AstrologyService.calculate_compatibility_scores returns
calculate_compatibility_scores(aspect_list, c1, c2) ==
    IF \E c \in {c1, c2} : "sun" \in DOMAIN c /\ c["sun"] = None
    THEN [error |-> "AttributeError"]
    ELSE LET harmonies     == [i \in DOMAIN aspect_list |-> aspect_list[i].harmony_score]
             sun1_elem     == ElementOf(c1, "sun")
             sun2_elem     == ElementOf(c2, "sun")
             bonus         == IF sun1_elem = sun2_elem THEN 10
                              ELSE IF \/ (sun1_elem \in {"Fire", "Air"}
                                              /\ sun2_elem \in {"Fire", "Air"})
                                      \/ (sun1_elem \in {"Earth", "Water"}
                                              /\ sun2_elem \in {"Earth", "Water"})
                              THEN 5 ELSE 0
             total_harmony == SumSeq(harmonies) + bonus
         IN  [overall           |-> normalize_score(50 + total_harmony * 2),
              emotional         |-> normalize_score(50 + CategoryHarmony(aspect_list, emotional_planets)),
              intellectual      |-> normalize_score(50 + CategoryHarmony(aspect_list, intellectual_planets)),
              physical          |-> normalize_score(50 + CategoryHarmony(aspect_list, physical_planets)),
              spiritual         |-> normalize_score(50 + CategoryHarmony(aspect_list, spiritual_planets)),
              harmonious_count  |-> Cardinality({i \in DOMAIN aspect_list : aspect_list[i].harmony_score > 0}),
              challenging_count |-> Cardinality({i \in DOMAIN aspect_list : aspect_list[i].harmony_score < 0})]

(***************************************************************************)
(* Inputs of the scoring specification                                     *)
(***************************************************************************)
\* the longest aspect list scored
MaxAspects == 3

\* harmony = ASPECT_HARMONY.get(aspect_type, 0)
HarmonyOf(aspect_type) ==
    IF aspect_type \in DOMAIN ASPECT_HARMONY THEN ASPECT_HARMONY[aspect_type] ELSE 0

\* an entry of a synastry aspect list as format_synastry_aspects and
\* calculate_manual_synastry build it; orb in hundredths
SynastryAspect(p1, p2, aspect_type, orb) ==
    [person1_planet |-> p1, person2_planet |-> p2, aspect_type |-> aspect_type,
     orb |-> orb, harmony_score |-> HarmonyOf(aspect_type)]

\* the aspects the scored lists are made of: special scores in both planet
\* orders, an orb above 5 degrees, every category, an unlisted pair, a type
\* spelled in mixed case, and a type no table lists
AspectPool ==
    { SynastryAspect("Sun", "Moon", "conjunction", 0),
      SynastryAspect("Moon", "Sun", "trine", 250),
      SynastryAspect("Venus", "Mars", "square", 600),
      SynastryAspect("Mars", "Venus", "opposition", 125),
      SynastryAspect("Saturn", "Sun", "square", 100),
      SynastryAspect("Mercury", "Mercury", "trine", 333),
      SynastryAspect("Mercury", "Jupiter", "sextile", 480),
      SynastryAspect("Sun", "Moon", "sQuArE", 80),
      SynastryAspect("Sun", "Sun", "quintile", 100) }

\* the lists of at most MaxAspects aspects of the pool
AspectLists == UNION {[1..n -> AspectPool] : n \in 0..MaxAspects}

\* a chart that holds a Sun and a Moon
ScoreChart(sun_degree, moon_degree) ==
    [k \in ChartKeys |->
        IF k = "sun" THEN Position("sun", sun_degree)
        ELSE IF k = "moon" THEN Position("moon", moon_degree)
        ELSE None]

\* pairs of charts: same Sun and Moon elements; compatible Suns only;
\* compatible Moons only; nothing in common
ScoreChartPairs ==
    { <<ScoreChart(Deg(10), Deg(130)), ScoreChart(Deg(125), Deg(250))>>,
      <<ScoreChart(Deg(10), Deg(10)),  ScoreChart(Deg(70), Deg(40))>>,
      <<ScoreChart(Deg(10), Deg(100)), ScoreChart(Deg(40), Deg(45))>>,
      <<ScoreChart(Deg(10), Deg(10)),  ScoreChart(Deg(40), Deg(100))>> }

InitScore ==
    /\ pc = "score_input"
    /\ aspects \in AspectLists
    /\ \E cc \in ScoreChartPairs : chart1 = cc[1] /\ chart2 = cc[2]
    /\ weighted_locals = NoResult
    /\ weighted_scores = NoResult
    /\ compat_scores = NoResult
    /\ current_sky = Idle
    /\ synastry_aspects = Idle
    /\ transit_aspects = Idle
    /\ transit_summary = Idle
    /\ IdleMoon
    /\ IdleLibrary
    /\ IdleRequest

\* SynastryAnalysisService.calculate_weighted_score(aspects, chart1, chart2)
WeightedScore ==
    /\ pc = "score_input"
    /\ weighted_locals' = IF ElementLookupRaises(chart1, chart2) THEN NoResult
                          ELSE WeightedLocals(aspects, chart1, chart2)
    /\ weighted_scores' = IF ElementLookupRaises(chart1, chart2)
                          THEN [error |-> "AttributeError"]
                          ELSE WeightedResult(aspects, weighted_locals')
    /\ pc' = "weighted_done"
    /\ UNCHANGED <<aspects, compat_scores, aspectVars, moonVars, libraryVars, requestVars>>

\* AstrologyService.calculate_compatibility_scores(aspects, chart1, chart2)
CompatibilityScores ==
    /\ pc = "score_input"
    /\ compat_scores' = calculate_compatibility_scores(aspects, chart1, chart2)
    /\ pc' = "compat_done"
    /\ UNCHANGED <<aspects, weighted_locals, weighted_scores, aspectVars, moonVars,
                   libraryVars, requestVars>>

NextScore == WeightedScore \/ CompatibilityScores

SpecScore == InitScore /\ [][NextScore]_vars

(***************************************************************************)
(* Inputs that cover every planet pair, every aspect type and the orbs     *)
(* around the floor of the orb modifier                                    *)
(***************************************************************************)
\* the planet names an aspect of the aspect library carries
PlanetNames ==
    {"Sun", "Moon", "Mercury", "Venus", "Mars", "Jupiter", "Saturn", "Uranus",
     "Neptune", "Pluto"}

\* the aspect types of the engine, and one that no table lists
AspectTypes ==
    {"conjunction", "sextile", "square", "trine", "opposition", "quincunx", "quintile"}

\* orbs in hundredths of a degree: exact, below, at and above the 5 degrees
\* from which the orb modifier is 0.5, up to 10 degrees
OrbGrid == {0, 125, 250, 499, 500, 501, 600, 800, 1000}

\* two aspects of the same planets and type, the first with the tighter or
\* the same orb
PairLists ==
    { <<SynastryAspect(p1, p2, t, oo[1]), SynastryAspect(p1, p2, t, oo[2])>> :
        p1 \in PlanetNames, p2 \in PlanetNames, t \in AspectTypes,
        oo \in {o \in OrbGrid \X OrbGrid : o[1] <= o[2]} }

InitPairs ==
    /\ pc = "score_input"
    /\ aspects \in PairLists
    /\ chart1 = ScoreChart(Deg(10), Deg(10))
    /\ chart2 = ScoreChart(Deg(40), Deg(100))
    /\ weighted_locals = NoResult
    /\ weighted_scores = NoResult
    /\ compat_scores = NoResult
    /\ current_sky = Idle
    /\ synastry_aspects = Idle
    /\ transit_aspects = Idle
    /\ transit_summary = Idle
    /\ IdleMoon
    /\ IdleLibrary
    /\ IdleRequest

SpecPairs == InitPairs /\ [][NextScore]_vars

(***************************************************************************)
(* Inputs that cover every combination of Sun and Moon elements            *)
(***************************************************************************)
\* what a chart can hold for a body: a position in a sign of one of the four
\* elements, a position whose sign SIGN_ELEMENTS does not list, or None
BodyStates == {"Fire", "Earth", "Air", "Water", "Unknown", "None"}

\* the entry of a chart for a body in the given state
BodyOf(key, state) ==
    IF state = "None" THEN None
    ELSE IF state = "Unknown"
    THEN [planet_name |-> Capitalize[key], degree |-> 0, element |-> "Unknown"]
    ELSE IF state = "Fire" THEN Position(key, Deg(10))
    ELSE IF state = "Earth" THEN Position(key, Deg(40))
    ELSE IF state = "Air" THEN Position(key, Deg(70))
    ELSE Position(key, Deg(100))

\* the charts over the keys "sun" and "moon": each key is missing or holds a
\* body in one of its states
ElementCharts ==
    { [k \in keys |-> BodyOf(k, f[k])] :
        keys \in SUBSET {"sun", "moon"}, f \in [{"sun", "moon"} -> BodyStates] }

\* the empty aspect list and lists of one aspect
ShortLists ==
    { << >>,
      <<SynastryAspect("Moon", "Sun", "trine", 250)>>,
      <<SynastryAspect("Venus", "Mars", "square", 600)>> }

InitElements ==
    /\ pc = "score_input"
    /\ aspects \in ShortLists
    /\ chart1 \in ElementCharts
    /\ chart2 \in ElementCharts
    /\ weighted_locals = NoResult
    /\ weighted_scores = NoResult
    /\ compat_scores = NoResult
    /\ current_sky = Idle
    /\ synastry_aspects = Idle
    /\ transit_aspects = Idle
    /\ transit_summary = Idle
    /\ IdleMoon
    /\ IdleLibrary
    /\ IdleRequest

SpecElements == InitElements /\ [][NextScore]_vars

(***************************************************************************)
(* Synastry report: AstrologyService.calculate_synastry                    *)
(***************************************************************************)
\* the answer of an aspect library that raises instead of returning a list
Raises == [raised |-> TRUE, relevant_aspects |-> << >>]

\* the answer of an aspect library that returns the list as relevant_aspects
Returns(list) == [raised |-> FALSE, relevant_aspects |-> list]

\* the planet names in a fixed order
PlanetSeq ==
    <<"Sun", "Moon", "Mercury", "Venus", "Mars", "Jupiter", "Saturn", "Uranus",
      "Neptune", "Pluto">>

\* the aspect names the library reports
LibraryTypes ==
    <<"conjunction", "tRiNe", "square", "sextile", "opposition", "quincunx", "Quintile">>

\* the i-th aspect of the library's list: names, aspect and orbit, the orbit
\* in thousandths of a degree
LibraryAspect(i) ==
    [p1_name |-> PlanetSeq[(i % 10) + 1],
     p2_name |-> PlanetSeq[((3 * i) % 10) + 1],
     aspect  |-> LibraryTypes[(i % 7) + 1],
     orbit   |-> (385 * i) % 8000,
     is_applying |-> (i % 2 = 0)]

\* round(orbit, 2), as a count of hundredths, of the float nearest to
\* orbit / 1000
RoundOrbit(orbit) == FloatRound(FloatDiv(FloatOfInt(orbit), FloatOfInt(1000)), 100)

\* AstrologyService.format_synastry_aspects(aspects_list); aspect_symbol and
\* interpretation are left out
format_synastry_aspects(aspects_list) ==
    [i \in 1..Min(20, Len(aspects_list)) |->
        SynastryAspect(aspects_list[i].p1_name, aspects_list[i].p2_name,
                       Lower(aspects_list[i].aspect), RoundOrbit(aspects_list[i].orbit))]

\* generate_big_three_summary reads sun.get and moon.get: AttributeError
\* when the chart's Sun or Moon is None
BigThreeRaises(chart) == ChartGet(chart, "sun") = None \/ ChartGet(chart, "moon") = None

\* generate_synastry_prompt reads chart.get(key, {}).get("sign", ...) for
\* sun, moon, venus and mars: AttributeError when one of them is None
PromptRaises(c1, c2) ==
    \E c \in {c1, c2}, key \in {"sun", "moon", "venus", "mars"} :
        key \in DOMAIN c /\ c[key] = None

\* synastry_aspects of calculate_synastry: the formatted list of the library,
\* or the manual fallback when the library raises
SynastryAspectsOf(c1, c2, library) ==
    IF library.raised THEN calculate_manual_synastry(c1, c2)
    ELSE format_synastry_aspects(library.relevant_aspects)

\* the record AstrologyService.calculate_synastry returns for the charts
\* calculate_natal_chart gave (names, the prompt text and the aspects and
\* summaries inside the two charts are left out), or the error it raises
calculate_synastry(c1, c2, library) ==
    IF BigThreeRaises(c1) \/ BigThreeRaises(c2) THEN [error |-> "AttributeError"]
    ELSE LET key_aspects == SynastryAspectsOf(c1, c2, library)
             scores      == calculate_compatibility_scores(key_aspects, c1, c2)
         IN  IF PromptRaises(c1, c2) THEN [error |-> "AttributeError"]
             ELSE [compatibility_score        |-> scores.overall,
                   emotional_compatibility    |-> scores.emotional,
                   intellectual_compatibility |-> scores.intellectual,
                   physical_compatibility     |-> scores.physical,
                   spiritual_compatibility    |-> scores.spiritual,
                   key_aspects                |-> key_aspects,
                   harmonious_aspects_count   |-> scores.harmonious_count,
                   challenging_aspects_count  |-> scores.challenging_count,
                   user1_chart                |-> c1,
                   user2_chart                |-> c2]

\* the longest list the aspect library answers with
MaxLibraryAspects == 22

\* the lists the library can answer with: the first n aspects from the k-th on
LibraryLists ==
    { [i \in 1..n |-> LibraryAspect(i + k)] : n \in 0..MaxLibraryAspects, k \in {0, 4} }

\* Sun, Mercury and Venus close together, the Moon a sextile and Mars a trine
\* away
PatternCluster ==
    "sun" :> 0 @@ "moon" :> Deg(60) @@ "mercury" :> Deg(5)
        @@ "venus" :> Deg(3) @@ "mars" :> Deg(120)
        @@ "jupiter" :> Absent @@ "saturn" :> Absent

\* every planet but Mercury
PatternNoMercury ==
    "sun" :> 0 @@ "moon" :> (Deg(60) + Eighth) @@ "mercury" :> Absent
        @@ "venus" :> (Deg(90) + 2 * Eighth) @@ "mars" :> Deg(128)
        @@ "jupiter" :> Deg(66) @@ "saturn" :> Deg(240)

SynastryPatterns1 == {PatternFull, PatternSparse, PatternCluster, PatternNoMercury}
SynastryPatterns2 ==
    {PatternFull, PatternSparse, PatternCluster, PatternNoMercury, PatternEmpty}
SynastryBases2 == {Deg(30 * k) : k \in 0..11}

InitSynastry ==
    /\ pc = "synastry_input"
    /\ \E b1 \in Bases1, p1 \in SynastryPatterns1 : chart1 = MakeChart(b1, p1)
    /\ \E b2 \in SynastryBases2, p2 \in SynastryPatterns2 : chart2 = MakeChart(b2, p2)
    /\ library_aspects \in {Raises} \cup {Returns(list) : list \in LibraryLists}
    /\ report = NoResult
    /\ synastry_aspects = NoResult
    /\ compat_scores = NoResult
    /\ current_sky = Idle
    /\ transit_aspects = Idle
    /\ transit_summary = Idle
    /\ aspects = Idle
    /\ weighted_locals = Idle
    /\ weighted_scores = Idle
    /\ IdleMoon
    /\ IdleRequest

\* AstrologyService.calculate_synastry for two persons whose charts are chart1
\* and chart2, with the aspect library answering library_aspects
CalculateSynastry ==
    /\ pc = "synastry_input"
    /\ report' = calculate_synastry(chart1, chart2, library_aspects)
    /\ synastry_aspects' =
          IF BigThreeRaises(chart1) \/ BigThreeRaises(chart2) THEN NoResult
          ELSE SynastryAspectsOf(chart1, chart2, library_aspects)
    /\ compat_scores' =
          IF BigThreeRaises(chart1) \/ BigThreeRaises(chart2) THEN NoResult
          ELSE calculate_compatibility_scores(
                   SynastryAspectsOf(chart1, chart2, library_aspects), chart1, chart2)
    /\ pc' = "synastry_reported"
    /\ UNCHANGED <<chart1, chart2, current_sky, transit_aspects,
                   transit_summary, aspects, weighted_locals, weighted_scores,
                   library_aspects, moonVars, requestVars>>

NextSynastry == CalculateSynastry

SpecSynastry == InitSynastry /\ [][NextSynastry]_vars

(***************************************************************************)
(* Natal chart: AstrologyService.calculate_natal_chart                     *)
(***************************************************************************)
\* the bodies of a natal chart
NatalKeys ==
    {"sun", "moon", "rising", "mercury", "venus", "mars", "jupiter", "saturn",
     "uranus", "neptune", "pluto"}

\* planet_name of the position of a body
NatalName ==
    "sun" :> "Sun" @@ "moon" :> "Moon" @@ "rising" :> "Ascendant"
        @@ "mercury" :> "Mercury" @@ "venus" :> "Venus" @@ "mars" :> "Mars"
        @@ "jupiter" :> "Jupiter" @@ "saturn" :> "Saturn" @@ "uranus" :> "Uranus"
        @@ "neptune" :> "Neptune" @@ "pluto" :> "Pluto"

\* the full names of the signs, from Aries on
SIGN_NAMES ==
    <<"Aries", "Taurus", "Gemini", "Cancer", "Leo", "Virgo", "Libra", "Scorpio",
      "Sagittarius", "Capricorn", "Aquarius", "Pisces">>

\* the sign a longitude lies in
SignAt(degree) == SIGN_NAMES[((degree \div Deg(30)) % 12) + 1]

\* what get_planet_data returns for a body at the given longitude
NatalPosition(key, degree) ==
    [planet_name |-> NatalName[key], degree |-> degree, sign |-> SignAt(degree),
     element |-> ElementAt(degree)]

\* AstrologyService.format_aspects(aspects_list); aspect_symbol and
\* interpretation are left out; orb in hundredths
format_aspects(aspects_list) ==
    [i \in 1..Min(15, Len(aspects_list)) |->
        [planet1     |-> aspects_list[i].p1_name,
         planet2     |-> aspects_list[i].p2_name,
         aspect_type |-> Lower(aspects_list[i].aspect),
         orb         |-> RoundOrbit(aspects_list[i].orbit),
         is_applying |-> aspects_list[i].is_applying]]

\* the signs generate_big_three_summary puts into its text
generate_big_three_summary(sun, moon, rising) ==
    [sun_sign    |-> sun.sign,
     moon_sign   |-> moon.sign,
     rising_sign |-> IF rising # None THEN rising.sign ELSE "Unknown"]

\* the record AstrologyService.calculate_natal_chart returns for the positions
\* get_planet_data gave (name, birth_datetime and location left out), or the
\* error it raises
calculate_natal_chart(positions, library) ==
    IF BigThreeRaises(positions) THEN [error |-> "AttributeError"]
    ELSE [positions |-> positions,
          aspects   |-> IF library.raised THEN << >>
                        ELSE format_aspects(library.relevant_aspects),
          sun_moon_rising_summary |->
              generate_big_three_summary(positions["sun"], positions["moon"],
                                         positions["rising"])]

\* the place of a body in the chart
PlanetRankOf(key) ==
    CHOOSE i \in 0..10 :
        <<"sun", "moon", "rising", "mercury", "venus", "mars", "jupiter", "saturn",
          "uranus", "neptune", "pluto">>[i + 1] = key

\* the bodies the ephemeris returned nothing for
AbsentBodies == {{}, {"rising", "mercury"}, {"sun"}, {"moon", "pluto"}}

\* the positions of a chart: the bodies 33.5 degrees apart from the base on
NatalPositions(base, absent) ==
    [k \in NatalKeys |->
        IF k \in absent THEN None
        ELSE NatalPosition(k, (base + HalfDeg(67) * PlanetRankOf(k)) % Circle)]

InitNatal ==
    /\ pc = "natal_input"
    /\ \E b \in Bases1, absent \in AbsentBodies : chart1 = NatalPositions(b, absent)
    /\ library_aspects \in {Raises} \cup {Returns(list) : list \in LibraryLists}
    /\ report = NoResult
    /\ chart2 = Idle
    /\ current_sky = Idle
    /\ synastry_aspects = Idle
    /\ transit_aspects = Idle
    /\ transit_summary = Idle
    /\ IdleMoon
    /\ IdleScore
    /\ IdleRequest

\* AstrologyService.calculate_natal_chart for a subject whose positions are
\* chart1, with the aspect library answering library_aspects
CalculateNatalChart ==
    /\ pc = "natal_input"
    /\ report' = calculate_natal_chart(chart1, library_aspects)
    /\ pc' = "natal_reported"
    /\ UNCHANGED <<aspectVars, scoreVars, moonVars, library_aspects, requestVars>>

NextNatal == CalculateNatalChart

SpecNatal == InitNatal /\ [][NextNatal]_vars

(***************************************************************************)
(* Scoring of longer aspect lists: the description lists of                *)
(* calculate_weighted_score                                                *)
(***************************************************************************)
\* the longest aspect list of the specification
MaxBucketAspects == 9

\* the aspects the longer lists are taken from, in a circle
BucketPool ==
    << SynastryAspect("Venus", "Mars", "conjunction", 0),
       SynastryAspect("Mars", "Venus", "trine", 250),
       SynastryAspect("Venus", "Venus", "trine", 100),
       SynastryAspect("Mercury", "Sun", "square", 500),
       SynastryAspect("Sun", "Venus", "sextile", 333),
       SynastryAspect("Pluto", "Venus", "conjunction", 50),
       SynastryAspect("Jupiter", "Venus", "trine", 480),
       SynastryAspect("Saturn", "Sun", "square", 100),
       SynastryAspect("Sun", "Saturn", "opposition", 250),
       SynastryAspect("Mars", "Mars", "conjunction", 125),
       SynastryAspect("Venus", "Neptune", "sextile", 600),
       SynastryAspect("Venus", "Jupiter", "trine", 480),
       SynastryAspect("Mercury", "Mercury", "conjunction", 0),
       SynastryAspect("Mercury", "Sun", "trine", 200),
       SynastryAspect("Venus", "Mercury", "sextile", 40),
       SynastryAspect("Mercury", "Mercury", "trine", 700),
       SynastryAspect("Mercury", "Venus", "square", 100),
       SynastryAspect("Moon", "Saturn", "square", 20),
       SynastryAspect("Saturn", "Venus", "conjunction", 40),
       SynastryAspect("Pluto", "Moon", "opposition", 333),
       SynastryAspect("Uranus", "Sun", "square", 480),
       SynastryAspect("Saturn", "Sun", "trine", 125),
       SynastryAspect("Sun", "Uranus", "quintile", 100),
       SynastryAspect("Sun", "Moon", "conjunction", 0),
       SynastryAspect("Moon", "Sun", "trine", 250),
       SynastryAspect("Moon", "Moon", "sextile", 600),
       SynastryAspect("Jupiter", "Moon", "trine", 50),
       SynastryAspect("Sun", "Sun", "square", 100),
       SynastryAspect("Moon", "Venus", "opposition", 700),
       SynastryAspect("Neptune", "Moon", "quincunx", 200),
       SynastryAspect("Jupiter", "Jupiter", "trine", 40),
       SynastryAspect("Venus", "Mars", "square", 800),
       SynastryAspect("Mars", "Mars", "square", 0) >>

\* the steps the lists take through the circle
BucketStrides == {1, 2, 5, 7}

\* the list of n aspects of the circle from start on, stride apart
BucketListAt(n, start, stride) ==
    [i \in 1..n |-> BucketPool[((start + (i - 1) * stride) % Len(BucketPool)) + 1]]

BucketLists ==
    {BucketListAt(n, start, stride) :
        n \in 0..MaxBucketAspects, start \in 0..(Len(BucketPool) - 1),
        stride \in BucketStrides}

InitBuckets ==
    /\ pc = "score_input"
    /\ aspects \in BucketLists
    /\ chart1 = ScoreChart(Deg(10), Deg(10))
    /\ chart2 = ScoreChart(Deg(40), Deg(100))
    /\ weighted_locals = NoResult
    /\ weighted_scores = NoResult
    /\ compat_scores = NoResult
    /\ current_sky = Idle
    /\ synastry_aspects = Idle
    /\ transit_aspects = Idle
    /\ transit_summary = Idle
    /\ IdleMoon
    /\ IdleLibrary
    /\ IdleRequest

SpecBuckets == InitBuckets /\ [][NextScore]_vars

(***************************************************************************)
(* Scoring of two charts that share their signs: the aspects scored are    *)
(* the ones calculate_synastry reports for the two charts when the aspect  *)
(* library fails (calculate_manual_synastry)                               *)
(***************************************************************************)
\* the four planets of the charts
TrinePlanets == <<"sun", "moon", "venus", "mars">>

\* the signs (0 = Aries .. 11 = Pisces) of Sun, Moon, Venus and Mars: three
\* fire signs; two earth signs; Sun and Mars in Aries with the Moon in Cancer
TrineSigns == {<<0, 4, 8, 4>>, <<1, 5, 9, 1>>, <<0, 3, 8, 0>>}

\* where in its sign a planet of the first, of the second chart stands
TrineOffsets1 == {Deg(2), Deg(9), Deg(20)}
TrineOffsets2 == {Deg(2), HalfDeg(29)}

\* the chart with the four planets in the given signs at the given offsets
TrineChart(signs, offsets) ==
    [k \in ChartKeys |->
        IF \E i \in 1..4 : TrinePlanets[i] = k
        THEN LET i == CHOOSE j \in 1..4 : TrinePlanets[j] = k
             IN  Position(k, Deg(30 * signs[i]) + offsets[i])
        ELSE None]

InitTrines ==
    /\ pc = "score_input"
    /\ \E signs \in TrineSigns :
          /\ \E offsets \in [1..4 -> TrineOffsets1] : chart1 = TrineChart(signs, offsets)
          /\ \E offsets \in [1..4 -> TrineOffsets2] : chart2 = TrineChart(signs, offsets)
    /\ aspects = calculate_manual_synastry(chart1, chart2)
    /\ weighted_locals = NoResult
    /\ weighted_scores = NoResult
    /\ compat_scores = NoResult
    /\ current_sky = Idle
    /\ synastry_aspects = Idle
    /\ transit_aspects = Idle
    /\ transit_summary = Idle
    /\ IdleMoon
    /\ IdleLibrary
    /\ IdleRequest

SpecTrines == InitTrines /\ [][NextScore]_vars

(***************************************************************************)
(* Ephemeris adapter: AstrologyService.get_planet_data                     *)
(* A value of a field of the ephemeris record is tagged with its Python    *)
(* type: [str |-> s], [int |-> n], [float |-> tenths], [bool |-> b], None, *)
(* or Missing when the record has no such key.                             *)
(***************************************************************************)
\* the record has no such key
Missing == [missing |-> TRUE]

\* a Python value of a record, with its type
Str(s) == [str |-> s]
Int_(n) == [int |-> n]
Float(tenths) == [float |-> tenths]
Bool(b) == [bool |-> b]

\* isinstance(v, str)
IsStr(v) == DOMAIN v = {"str"}

\* isinstance(v, int): a bool is an int
IsInt(v) == DOMAIN v \in {{"int"}, {"bool"}}

\* the number an int stands for as a dictionary key and in a condition: True
\* is 1 and False is 0
IntValue(v) == IF DOMAIN v = {"bool"} THEN (IF v.bool THEN 1 ELSE 0) ELSE v.int

\* the house names of the table, in the order of their numbers
HouseNames ==
    <<"First_House", "Second_House", "Third_House", "Fourth_House", "Fifth_House",
      "Sixth_House", "Seventh_House", "Eighth_House", "Ninth_House", "Tenth_House",
      "Eleventh_House", "Twelfth_House">>

\* HOUSE_NAME_TO_NUMBER
HOUSE_NAME_TO_NUMBER == [name \in {HouseNames[i] : i \in 1..12} |->
                            CHOOSE i \in 1..12 : HouseNames[i] = name]

\* the keys of SIGN_NAMES, SIGN_ELEMENTS and of the sign sentences of a
\* planet, from Aries on
SIGN_ABBRS ==
    <<"Ari", "Tau", "Gem", "Can", "Leo", "Vir", "Lib", "Sco", "Sag", "Cap", "Aqu", "Pis">>

IsSignAbbr(sign_abbr) == \E i \in 1..12 : SIGN_ABBRS[i] = sign_abbr

SignIndex(sign_abbr) == CHOOSE i \in 1..12 : SIGN_ABBRS[i] = sign_abbr

\* SIGN_NAMES.get(sign_abbr, sign_abbr)
SignName(sign_abbr) ==
    IF IsSignAbbr(sign_abbr) THEN SIGN_NAMES[SignIndex(sign_abbr)] ELSE sign_abbr

\* SIGN_ELEMENTS.get(sign_abbr, "Unknown")
SignElement(sign_abbr) ==
    IF IsSignAbbr(sign_abbr)
    THEN <<"Fire", "Earth", "Air", "Water">>[((SignIndex(sign_abbr) - 1) % 4) + 1]
    ELSE "Unknown"

\* the abbreviation of the sign a longitude lies in
SignAbbrAt(degree) == SIGN_ABBRS[((degree \div Deg(30)) % 12) + 1]

\* the keys of PLANET_HOUSE_INTERPRETATIONS
PLANET_HOUSE_INTERPRETATIONS ==
    {"Sun", "Moon", "Mercury", "Venus", "Mars", "Jupiter", "Saturn", "Uranus",
     "Neptune", "Pluto"}

\* the keys of PLANET_SIGN_INTERPRETATIONS
PLANET_SIGN_INTERPRETATIONS == PLANET_HOUSE_INTERPRETATIONS \cup {"Ascendant"}

\* planet.get(key, default) on a record of the ephemeris
RecordGet(value, default) == IF value = Missing THEN default ELSE value

\* a longitude of a record, in 1/Unit degree
Degrees(d) == [degrees |-> d]

\* get_planet_data: house_num from planet.get("house", 1); an int, bools
\* included, is passed on as it is
HouseNumber(raw) ==
    LET raw_house == RecordGet(raw, Int_(1))
    IN  IF IsStr(raw_house)
        THEN IF raw_house.str \in DOMAIN HOUSE_NAME_TO_NUMBER
             THEN Int_(HOUSE_NAME_TO_NUMBER[raw_house.str]) ELSE Int_(1)
        ELSE IF IsInt(raw_house) THEN raw_house ELSE Int_(1)

\* get_planet_data: is_retrograde from planet.get("retrograde", False); the
\* result keeps its type
IsRetrograde(raw) ==
    LET is_retrograde == RecordGet(raw, Bool(FALSE))
    IN  IF is_retrograde = None THEN Bool(FALSE) ELSE is_retrograde

\* AstrologyService.get_interpretation(planet_name, sign_abbr, house): what
\* its text is made of. sign_text is the sentence of the planet in the sign,
\* named by its keys, or the words "<planet_name> in <sign name>" when the
\* table has none; house_text is the house sentence appended to it, named by
\* its keys, or None when none is appended
get_interpretation(planet_name, sign_abbr, house) ==
    [sign_text  |-> IF planet_name \in PLANET_SIGN_INTERPRETATIONS /\ IsSignAbbr(sign_abbr)
                    THEN [planet |-> planet_name, sign |-> sign_abbr]
                    ELSE [words |-> planet_name \o " in " \o SignName(sign_abbr)],
     house_text |-> IF /\ IntValue(house) # 0
                       /\ planet_name \in PLANET_HOUSE_INTERPRETATIONS
                       /\ IntValue(house) \in 1..12
                    THEN [planet |-> planet_name, house |-> IntValue(house)]
                    ELSE None]

\* the position get_planet_data builds from a record and what it read from it
PositionOf(planet, planet_name, sign_abbr, house_num) ==
    [planet_name    |-> planet_name,
     sign           |-> SignName(sign_abbr),
     house          |-> house_num,
     degree         |-> RecordGet(planet.abs_pos, Degrees(0)).degrees,
     is_retrograde  |-> IsRetrograde(planet.retrograde),
     element        |-> SignElement(sign_abbr),
     interpretation |-> get_interpretation(planet_name, sign_abbr, house_num)]

\* AstrologyService.get_planet_data(subject, planet_attr), planet being
\* getattr(subject, planet_attr, None); symbols, sign_degree and modality are
\* left out
get_planet_data(planet_attr, planet) ==
    IF planet = None THEN None
    ELSE PositionOf(planet,
                    IF planet_attr = "first_house" THEN "Ascendant"
                    ELSE RecordGet(planet.name, Str(planet_attr)).str,
                    RecordGet(planet.sign, Str("Ari")).str,
                    HouseNumber(planet.house))

\* the houses a record of the ephemeris can carry: the twelve names, names the
\* table does not know, an int (a house number, a number that is none, a
\* bool), a float, None, or no house at all
RawHouses ==
    {Str(HouseNames[i]) : i \in 1..12}
        \cup {Str("Tenth House"), Str("tenth_house"), Str("")}
        \cup {Int_(n) : n \in (0 - 1)..13}
        \cup {Bool(TRUE), Bool(FALSE)}
        \cup {Float(25), None, Missing}

\* the retrograde flags a record of the ephemeris can carry
RawRetrogrades == {Bool(TRUE), Bool(FALSE), None, Missing}

\* the names and signs a record of the ephemeris can carry: listed in the
\* tables, not listed, or absent
RawNames == {Str("Sun"), Str("Chiron"), Missing}

RawSigns == {Str("Tau"), Str("Oph"), Missing}

\* the records of the ephemeris for a body, at 47.5 degrees when it has a
\* longitude, and no record
RawPlanets ==
    {[name |-> n, sign |-> s, abs_pos |-> d, house |-> h, retrograde |-> r] :
        n \in RawNames, s \in RawSigns, d \in {Degrees(HalfDeg(95)), Missing},
        h \in RawHouses, r \in RawRetrogrades} \cup {None}

InitPlanet ==
    /\ pc = "planet_input"
    /\ request \in {"sun", "first_house", "pluto"}
    /\ ephemeris \in RawPlanets
    /\ report = NoResult
    /\ library_aspects = Idle
    /\ IdleMoon
    /\ IdleAspect
    /\ IdleScore

\* AstrologyService.get_planet_data for the attribute request, the subject
\* holding the record ephemeris for it
GetPlanetData ==
    /\ pc = "planet_input"
    /\ report' = get_planet_data(request, ephemeris)
    /\ pc' = "planet_done"
    /\ UNCHANGED <<moonVars, aspectVars, scoreVars, library_aspects, request,
                   ephemeris>>

NextPlanet == GetPlanetData

SpecPlanet == InitPlanet /\ [][NextPlanet]_vars

(***************************************************************************)
(* Birth data: AstrologyService.parse_birth_data                           *)
(* A Python string is the sequence of its characters.                      *)
(***************************************************************************)
\* the ValueError a parse raises
ValueError == [error |-> "ValueError"]

Digits == <<"0", "1", "2", "3", "4", "5", "6", "7", "8", "9">>

IsDigit(c) == \E i \in 1..10 : Digits[i] = c

DigitValue(c) == (CHOOSE i \in 1..10 : Digits[i] = c) - 1

\* the character at a place of a string, "" past its end
At(text, i) == IF i \in DOMAIN text THEN text[i] ELSE ""

\* the number a string of digits and underscores denotes
RECURSIVE DecimalValue(_)
DecimalValue(text) ==
    IF text = << >> THEN 0
    ELSE LET front == SubSeq(text, 1, Len(text) - 1)
             last  == text[Len(text)]
         IN  IF last = "_" THEN DecimalValue(front)
             ELSE 10 * DecimalValue(front) + DigitValue(last)

\* the vertical tab, which has no escape
VerticalTab == ""

\* the ASCII characters that are whitespace to int(): blank, tab, newline,
\* vertical tab, form feed and carriage return
Whitespace == {" ", "\t", "\n", VerticalTab, "\f", "\r"}

\* the string without the whitespace at its two ends
RECURSIVE Strip(_)
Strip(text) ==
    IF text = << >> THEN text
    ELSE IF text[1] \in Whitespace THEN Strip(Tail(text))
    ELSE IF text[Len(text)] \in Whitespace THEN Strip(SubSeq(text, 1, Len(text) - 1))
    ELSE text

\* Python int(text) of an ASCII string: whitespace around, one sign, digits
\* with single underscores between them; ValueError for everything else
PyInt(text) ==
    LET stripped == Strip(text)
        signed   == At(stripped, 1) \in {"+", "-"}
        body     == IF signed THEN Tail(stripped) ELSE stripped
        valid    == /\ body # << >>
                    /\ \A i \in 1..Len(body) :
                          \/ IsDigit(body[i])
                          \/ /\ body[i] = "_"
                             /\ IsDigit(At(body, i - 1))
                             /\ IsDigit(At(body, i + 1))
    IN  IF ~valid THEN ValueError
        ELSE [int |-> IF At(stripped, 1) = "-" THEN 0 - DecimalValue(body)
                      ELSE DecimalValue(body)]

\* time_str.split(":")
RECURSIVE Split(_)
Split(text) ==
    IF \A i \in DOMAIN text : text[i] # ":" THEN <<text>>
    ELSE LET k == CHOOSE i \in DOMAIN text :
                      text[i] = ":" /\ \A j \in 1..(i - 1) : text[j] # ":"
         IN  <<SubSeq(text, 1, k - 1)>> \o Split(SubSeq(text, k + 1, Len(text)))

\* the length of the month strptime reads at place i: 1[0-2], 0[1-9] or [1-9],
\* followed by the "-" of the format; 0 when there is none
MonthLength(text, i) ==
    IF At(text, i) = "1" /\ At(text, i + 1) \in {"0", "1", "2"} /\ At(text, i + 2) = "-"
    THEN 2
    ELSE IF At(text, i) = "0" /\ IsDigit(At(text, i + 1)) /\ At(text, i + 1) # "0"
            /\ At(text, i + 2) = "-"
    THEN 2
    ELSE IF IsDigit(At(text, i)) /\ At(text, i) # "0" /\ At(text, i + 1) = "-"
    THEN 1
    ELSE 0

\* the length of the day strptime reads at place i: 3[0-1], [1-2]\d, 0[1-9],
\* [1-9] or a blank and [1-9]; 0 when there is none
DayLength(text, i) ==
    IF At(text, i) = "3" /\ At(text, i + 1) \in {"0", "1"} THEN 2
    ELSE IF At(text, i) \in {"1", "2"} /\ IsDigit(At(text, i + 1)) THEN 2
    ELSE IF At(text, i) = "0" /\ IsDigit(At(text, i + 1)) /\ At(text, i + 1) # "0" THEN 2
    ELSE IF IsDigit(At(text, i)) /\ At(text, i) # "0" THEN 1
    ELSE IF At(text, i) = " " /\ IsDigit(At(text, i + 1)) /\ At(text, i + 1) # "0" THEN 2
    ELSE 0

IsLeapYear(year) == year % 4 = 0 /\ (year % 100 # 0 \/ year % 400 = 0)

DaysInMonth(year, month) ==
    IF month = 2 THEN (IF IsLeapYear(year) THEN 29 ELSE 28)
    ELSE IF month \in {4, 6, 9, 11} THEN 30 ELSE 31

\* datetime.strptime(date_str, "%Y-%m-%d"): four digits, "-", month, "-", day
\* and nothing after it, denoting a date of the calendar from year 1 on
strptime(date_str) ==
    LET has_year  == \A i \in 1..4 : IsDigit(At(date_str, i))
        month_len == MonthLength(date_str, 6)
        day_at    == 6 + month_len + 1
        day_len   == DayLength(date_str, day_at)
        matches   == /\ has_year
                     /\ At(date_str, 5) = "-"
                     /\ month_len > 0
                     /\ day_len > 0
                     /\ day_at + day_len - 1 = Len(date_str)
        year      == DecimalValue(SubSeq(date_str, 1, 4))
        month     == DecimalValue(SubSeq(date_str, 6, 5 + month_len))
        day       == DecimalValue(Strip(SubSeq(date_str, day_at, day_at + day_len - 1)))
    IN  IF ~matches THEN ValueError
        ELSE IF year < 1 \/ day > DaysInMonth(year, month) THEN ValueError
        ELSE [year |-> year, month |-> month, day |-> day]

\* AstrologyService.parse_birth_data(date_str, time_str): the tuple it returns,
\* or the ValueError it raises
parse_birth_data(date_str, time_str) ==
    LET date       == strptime(date_str)
        time_parts == Split(time_str)
        hour       == PyInt(time_parts[1])
        minute     == IF Len(time_parts) > 1 THEN PyInt(time_parts[2]) ELSE [int |-> 0]
    IN  IF date = ValueError \/ hour = ValueError \/ minute = ValueError THEN ValueError
        ELSE [year |-> date.year, month |-> date.month, day |-> date.day,
              hour |-> hour.int, minute |-> minute.int]

\* the longest time string built from TimeCharacters
MaxTimeLen == 5

TimeCharacters == {"2", "7", ":", "x"}

\* the date strings of the requests
DateStrings ==
    {<<"1", "9", "9", "0", "-", "0", "1", "-", "0", "5">>,
     <<"2", "0", "2", "4", "-", "0", "2", "-", "2", "9">>,
     <<"1", "9", "9", "0", "-", "1", "2", "-", "3", "1">>,
     <<"2", "0", "2", "3", "-", "0", "2", "-", "2", "9">>,
     <<"1", "9", "9", "0", "-", "0", "4", "-", "3", "1">>,
     <<"1", "9", "9", "0", "-", "1", "-", "5">>,
     <<"1", "9", "9", "0", "-", "0", "1", "-", " ", "5">>,
     <<"1", "9", "9", "0", "-", "1", "0", "-", "5">>,
     <<"9", "0", "-", "0", "1", "-", "0", "5">>,
     <<"1", "9", "9", "0", "/", "0", "1", "/", "0", "5">>,
     <<"1", "9", "9", "0", "-", "1", "3", "-", "0", "1">>,
     <<"1", "9", "9", "0", "-", "0", "0", "-", "1", "0">>,
     <<"0", "0", "0", "0", "-", "0", "1", "-", "0", "1">>,
     <<"1", "9", "9", "x", "-", "0", "1", "-", "0", "5">>,
     <<"1", "9", "9", "0", "-", "0", "1", "-", "0", "5", "x">>,
     <<"1", "9", "9", "0", "-", "0", "1", "-", "3", "1", "1">>,
     <<>>}

\* time strings with the characters TimeCharacters does not have
OtherTimeStrings ==
    {<<"1", "4", ":", "3", "0">>,
     <<"0", "7", ":", "0", "5">>,
     <<"2", "3", ":", "5", "9">>,
     <<"0", "0", ":", "0", "0">>,
     <<"1", "4">>,
     <<"2", "4", ":", "0", "0">>,
     <<"1", "4", ":", "6", "0">>,
     <<" ", "7", ":", "2", "0">>,
     <<"+", "7", ":", "2", "0">>,
     <<"-", "2", ":", "0", "7">>,
     <<"1", "_", "2", ":", "0", "0">>,
     <<"0", "7", ":", "2", "0", ":", "0", "0">>,
     <<"0", "7", ":", "2", "0", ":", "x", "x">>,
     <<"1", "4", ":">>,
     <<"7", ".", "5", ":", "0", "0">>,
     <<":", "3", "0">>,
     <<"1", "_", "_", "2", ":", "0", "0">>,
     <<"\t", "7", ":", "0", "5">>,
     <<"7", "\n", ":", "0", "5", "\r">>,
     <<VerticalTab, "7", ":", " ", "5", "\f">>,
     <<"1", "\t", "4", ":", "0", "0">>,
     <<"\t", ":", "0", "0">>}

\* the time strings of the requests
TimeStrings ==
    UNION {[1..n -> TimeCharacters] : n \in 0..MaxTimeLen} \cup OtherTimeStrings

InitParse ==
    /\ pc = "parse_input"
    /\ request \in [date : DateStrings, time : TimeStrings]
    /\ report = NoResult
    /\ library_aspects = Idle
    /\ ephemeris = Idle
    /\ IdleMoon
    /\ IdleAspect
    /\ IdleScore

\* AstrologyService.parse_birth_data(date, time)
ParseBirthData ==
    /\ pc = "parse_input"
    /\ report' = parse_birth_data(request.date, request.time)
    /\ pc' = "parse_done"
    /\ UNCHANGED <<moonVars, aspectVars, scoreVars, library_aspects, request,
                   ephemeris>>

NextParse == ParseBirthData

SpecParse == InitParse /\ [][NextParse]_vars

(***************************************************************************)
(* A natal chart request: AstrologyService.calculate_natal_chart from its  *)
(* arguments on, against an ephemeris source and an aspect library         *)
(***************************************************************************)
\* the ephemeris source raises while the subject is built
EphemerisRaises == [raised |-> TRUE]

\* the ephemeris source builds a subject with these bodies
Subject(bodies) == [raised |-> FALSE, bodies |-> bodies]

\* reading the body from the subject raises an error other than AttributeError
AccessRaises == [raises |-> "RuntimeError"]

\* the error of the ephemeris source, as the caller sees it
EphemerisError == [error |-> "EphemerisError"]

\* AstrologyService.create_subject: the subject, or the error of the source
create_subject(source) == IF source.raised THEN EphemerisError ELSE source.bodies

\* the attribute of the subject a body of the chart is read from
NatalAttr(key) == IF key = "rising" THEN "first_house" ELSE key

\* the attributes calculate_natal_chart reads
NatalAttrs == {NatalAttr(key) : key \in NatalKeys}

\* f"{date} {time}"
BirthDatetime(date, time) == date \o <<" ">> \o time

\* the chart of a request, or the error calculate_natal_chart raised
ChartOfPositions(req, chart) ==
    IF "error" \in DOMAIN chart THEN chart
    ELSE [birth_datetime |-> BirthDatetime(req.date, req.time),
          positions      |-> chart.positions,
          aspects        |-> chart.aspects,
          sun_moon_rising_summary |-> chart.sun_moon_rising_summary]

\* calculate_natal_chart once the subject is built: the positions, then the
\* chart, or the error it raises
ChartOfSubject(req, subject, library) ==
    IF \E a \in NatalAttrs : subject[a] = AccessRaises THEN EphemerisError
    ELSE ChartOfPositions(req,
             calculate_natal_chart(
                 [k \in NatalKeys |-> get_planet_data(NatalAttr(k), subject[NatalAttr(k)])],
                 library))

\* AstrologyService.calculate_natal_chart(date, time, ...): the chart it
\* returns (name and location, which it copies from its arguments, left out),
\* or the error it raises
calculate_natal_chart_request(req, source, library) ==
    IF parse_birth_data(req.date, req.time) = ValueError THEN ValueError
    ELSE IF create_subject(source) = EphemerisError THEN EphemerisError
    ELSE ChartOfSubject(req, create_subject(source), library)

\* the name the ephemeris gives a body
RawName(attr) ==
    IF attr = "first_house" THEN Str("First_House")
    ELSE IF attr = "pluto" THEN Missing
    ELSE Str(NatalName[attr])

\* the longitude of a body of the subject: the bodies 33.5 degrees apart from
\* 12.5 degrees on
RawLongitude(key) == (HalfDeg(25) + HalfDeg(67) * PlanetRankOf(key)) % Circle

\* the record of the ephemeris for the body of a chart key: each in the house
\* of its rank, Mercury and Saturn retrograde
RawBody(key) ==
    [name       |-> RawName(NatalAttr(key)),
     sign       |-> Str(SignAbbrAt(RawLongitude(key))),
     abs_pos    |-> Degrees(RawLongitude(key)),
     house      |-> IF key = "rising" THEN None ELSE Str(HouseNames[PlanetRankOf(key) + 1]),
     retrograde |-> IF key \in {"mercury", "saturn"} THEN Bool(TRUE)
                    ELSE IF key = "rising" THEN None ELSE Bool(FALSE)]

\* the chart key read from an attribute of the subject
KeyOfAttr(attr) == CHOOSE key \in NatalKeys : NatalAttr(key) = attr

\* the bodies of a subject by attribute, some absent and some raising when
\* read
RawBodies(absent, raising) ==
    [a \in NatalAttrs |->
        IF a \in raising THEN AccessRaises
        ELSE IF a \in absent THEN None
        ELSE RawBody(KeyOfAttr(a))]

\* what the ephemeris source answers to a request
EphemerisAnswers ==
    {EphemerisRaises,
     Subject(RawBodies({}, {})),
     Subject(RawBodies({"first_house", "mercury"}, {})),
     Subject(RawBodies({"sun"}, {})),
     Subject(RawBodies({}, {"pluto"})),
     Subject(RawBodies({"uranus"}, {"moon"}))}

\* what the aspect library answers to a request
LibraryAnswers ==
    {Raises, Returns(<< >>), Returns([i \in 1..3 |-> LibraryAspect(i)]),
     Returns([i \in 1..17 |-> LibraryAspect(i)])}

\* the birth data of the requests
RequestDates == {<<"1", "9", "9", "0", "-", "0", "1", "-", "0", "5">>,
                 <<"2", "0", "2", "4", "-", "0", "2", "-", "2", "9">>,
                 <<"2", "0", "2", "3", "-", "0", "2", "-", "2", "9">>}

RequestTimes == {<<"1", "4", ":", "3", "0">>, <<"0", "7", ":", "0", "5">>, <<"1", "4">>, <<"x">>}

InitRequest ==
    /\ pc = "request"
    /\ request \in [date : RequestDates, time : RequestTimes]
    /\ ephemeris \in EphemerisAnswers
    /\ library_aspects \in LibraryAnswers
    /\ report = NoResult
    /\ IdleMoon
    /\ IdleAspect
    /\ IdleScore

\* AstrologyService.calculate_natal_chart(date, time, ...), the ephemeris
\* source answering ephemeris and the aspect library library_aspects
NatalChartRequest ==
    /\ pc = "request"
    /\ report' = calculate_natal_chart_request(request, ephemeris, library_aspects)
    /\ pc' = "answered"
    /\ UNCHANGED <<moonVars, aspectVars, scoreVars, library_aspects, request,
                   ephemeris>>

NextRequest == NatalChartRequest

SpecRequest == InitRequest /\ [][NextRequest]_vars

(***************************************************************************)
(* Properties of the Moon-Phase Calculator (specification SpecMoon)        *)
(***************************************************************************)
MoonDone == pc = "moon_done"

\* the phase angle of the current inputs, written out from the two longitudes
CurrentAngle == (moon_longitude - sun_longitude + Circle) % Circle

\* C4: a major phase is named exactly when the phase angle lies within 5
\* degrees of its angle, boundaries included and the New Moon window wrapping
\* through 0/360; sun = 0, moon = 176 is Full Moon at 97.8 percent, sun = 0,
\* moon = 0 is New Moon at 0.0, sun = 0, moon = 180 is Full Moon at 100.0
C4_MajorWindows ==
    MoonDone =>
        /\ moon_phase.name = "New Moon"
              <=> (CurrentAngle >= Deg(355) \/ CurrentAngle <= Deg(5))
        /\ moon_phase.name = "First Quarter"
              <=> (Deg(85) <= CurrentAngle /\ CurrentAngle <= Deg(95))
        /\ moon_phase.name = "Full Moon"
              <=> (Deg(175) <= CurrentAngle /\ CurrentAngle <= Deg(185))
        /\ moon_phase.name = "Last Quarter"
              <=> (Deg(265) <= CurrentAngle /\ CurrentAngle <= Deg(275))
        /\ (sun_longitude = 0 /\ moon_longitude = Deg(176))
              => (moon_phase.name = "Full Moon" /\ moon_phase.illumination = 978)
        /\ (sun_longitude = 0 /\ moon_longitude = 0)
              => (moon_phase.name = "New Moon" /\ moon_phase.illumination = 0)
        /\ (sun_longitude = 0 /\ moon_longitude = Deg(180))
              => (moon_phase.name = "Full Moon" /\ moon_phase.illumination = 1000)

\* the 176 degree case of C4 has been computed
C4_Witness ==
    /\ MoonDone
    /\ sun_longitude = 0
    /\ moon_longitude = Deg(176)
    /\ moon_phase.name = "Full Moon"
    /\ moon_phase.illumination = 978

\* C5: the result always carries one of the eight phase names; outside the
\* four major windows it is the intermediate phase of the open interval the
\* angle lies in, and the trailing fallback return is never taken
C5_EightPhasesNoFallback ==
    MoonDone =>
        /\ moon_phase.name \in
              {"New Moon", "Waxing Crescent", "First Quarter", "Waxing Gibbous",
               "Full Moon", "Waning Gibbous", "Last Quarter", "Waning Crescent"}
        /\ phase_branch # "fallback"
        /\ (Deg(5) < CurrentAngle /\ CurrentAngle < Deg(85))
              => moon_phase.name = "Waxing Crescent"
        /\ (Deg(95) < CurrentAngle /\ CurrentAngle < Deg(175))
              => moon_phase.name = "Waxing Gibbous"
        /\ (Deg(185) < CurrentAngle /\ CurrentAngle < Deg(265))
              => moon_phase.name = "Waning Gibbous"
        /\ (Deg(275) < CurrentAngle /\ CurrentAngle < Deg(355))
              => moon_phase.name = "Waning Crescent"

\* an intermediate phase has been returned for an angle just inside its range
C5_Witness ==
    /\ MoonDone
    /\ phase_branch = "intermediate"
    /\ CurrentAngle = Deg(175) - Fine
    /\ moon_phase.name = "Waxing Gibbous"

\* the lit part of a phase angle: the angle up to 180 degrees, 360 - angle after
Triangle(angle) == IF angle <= Deg(180) THEN angle ELSE Circle - angle

\* tenths is a tenth of a percent nearest to Triangle(angle) / 180 * 100
NearestTenth(tenths, angle) ==
    2 * Abs(tenths * 180 * Unit - Triangle(angle) * 1000) <= 180 * Unit

\* C6: the reported phase angle is (moon - sun) mod 360 and the illumination
\* the triangular function of it; the result is unchanged when the same offset
\* is added to both longitudes, the illumination is 0 at angle 0, 100 at angle
\* 180, and the same for the angles a and 360 - a
C6_AngleAndIllumination ==
    MoonDone =>
        /\ moon_phase.phase_angle = Round1(CurrentAngle)
        /\ NearestTenth(moon_phase.illumination, CurrentAngle)
        /\ \A off \in Offsets :
              calculate_moon_phase((sun_longitude + off) % Circle,
                                   (moon_longitude + off) % Circle) = moon_phase
        /\ CurrentAngle = 0 => moon_phase.illumination = 0
        /\ CurrentAngle = Deg(180) => moon_phase.illumination = 1000
        /\ calculate_moon_phase(0, (Circle - CurrentAngle) % Circle).illumination
              = moon_phase.illumination

\* a waning phase has been computed from a sun longitude that is not 0
C6_Witness ==
    /\ MoonDone
    /\ sun_longitude = Deg(10)
    /\ CurrentAngle = Deg(270)
    /\ moon_phase.illumination = 500
    /\ moon_phase.phase_angle = 2700

\* C7: every returned record has illumination in [0,100] and phase_angle in
\* [0,360), strictly below 360, also after the rounding to one decimal
C7_RecordRanges ==
    MoonDone =>
        /\ 0 <= moon_phase.illumination /\ moon_phase.illumination <= 1000
        /\ 0 <= moon_phase.phase_angle /\ moon_phase.phase_angle < 3600

(***************************************************************************)
(* Properties of the Aspect Engine (specification SpecAspect)              *)
(***************************************************************************)
SynastryDone == pc = "synastry_done"
TransitsDone == pc = "transits_done"

AspectNames == {"conjunction", "sextile", "square", "trine", "opposition"}

\* the exact angle of each aspect and the tolerances of the two call sites,
\* in degrees, as the specification states them
ExactAngle ==
    "conjunction" :> 0 @@ "sextile" :> 60 @@ "square" :> 90 @@ "trine" :> 120
        @@ "opposition" :> 180
SynastryTolerance ==
    "conjunction" :> 8 @@ "sextile" :> 6 @@ "square" :> 6 @@ "trine" :> 8
        @@ "opposition" :> 8
TransitTolerance ==
    "conjunction" :> 8 @@ "sextile" :> 5 @@ "square" :> 6 @@ "trine" :> 7
        @@ "opposition" :> 8

\* the position of an aspect in the candidate order
CandidateRank ==
    "conjunction" :> 1 @@ "sextile" :> 2 @@ "square" :> 3 @@ "trine" :> 4
        @@ "opposition" :> 5

\* the circular distance of two longitudes: the shorter of the two arcs
CircularDistance(a, b) == Min(Abs(a - b), Circle - Abs(a - b))

\* the planet pairs the synastry fallback examines in the current charts
SynastryPairs ==
    {pp \in {"sun", "moon", "venus", "mars", "mercury"}
                \X {"sun", "moon", "venus", "mars", "mercury"} :
        chart1[pp[1]] # None /\ chart2[pp[2]] # None}

\* the planet pairs the transit engine examines: sky planet, natal planet
TransitPairs ==
    {pp \in {"sun", "moon", "mercury", "venus", "mars"} \X ChartKeys :
        current_sky[pp[1]] # None /\ chart2[pp[2]] # None}

SynastryPairDistance(pp) == CircularDistance(chart1[pp[1]].degree, chart2[pp[2]].degree)
TransitPairDistance(pp) == CircularDistance(current_sky[pp[1]].degree, chart2[pp[2]].degree)

\* the entries of the result lists that belong to a planet pair
SynastryEntries(pp) ==
    {i \in DOMAIN synastry_aspects :
        /\ synastry_aspects[i].person1_planet = chart1[pp[1]].planet_name
        /\ synastry_aspects[i].person2_planet = chart2[pp[2]].planet_name}
TransitEntries(pp) ==
    {i \in DOMAIN transit_aspects :
        /\ transit_aspects[i].transiting_planet = Capitalize[pp[1]]
        /\ transit_aspects[i].natal_planet = chart2[pp[2]].planet_name}

\* |diff - angle| of an aspect type, in 1/Unit degree
DeviationFrom(diff, a) == Abs(diff - Deg(ExactAngle[a]))

\* an aspect of type a is emitted for the pair iff its deviation is within the
\* call site's tolerance
EmittedIffWithinTolerance ==
    /\ SynastryDone => \A pp \in SynastryPairs, a \in AspectNames :
          (\E i \in SynastryEntries(pp) : synastry_aspects[i].aspect_type = a)
              <=> DeviationFrom(SynastryPairDistance(pp), a) <= Deg(SynastryTolerance[a])
    /\ TransitsDone => \A pp \in TransitPairs, a \in AspectNames :
          (\E i \in TransitEntries(pp) : transit_aspects[i].aspect = a)
              <=> DeviationFrom(TransitPairDistance(pp), a) <= Deg(TransitTolerance[a])

\* the worked examples: distances 60, 61.5, 90, 66 and 128
AspectExamples ==
    /\ SynastryDone => \A pp \in SynastryPairs : \A i \in SynastryEntries(pp) :
          /\ SynastryPairDistance(pp) = Deg(60)
                => (synastry_aspects[i].aspect_type = "sextile" /\ synastry_aspects[i].orb = 0)
          /\ 2 * SynastryPairDistance(pp) = Deg(123)
                => (synastry_aspects[i].aspect_type = "sextile" /\ synastry_aspects[i].orb = 150)
          /\ SynastryPairDistance(pp) = Deg(90)
                => (synastry_aspects[i].aspect_type = "square" /\ synastry_aspects[i].orb = 0)
    /\ SynastryDone => \A pp \in SynastryPairs :
          /\ SynastryPairDistance(pp) = Deg(66)
                => \E i \in SynastryEntries(pp) : synastry_aspects[i].aspect_type = "sextile"
          /\ SynastryPairDistance(pp) = Deg(128)
                => \E i \in SynastryEntries(pp) : synastry_aspects[i].aspect_type = "trine"
    /\ TransitsDone => \A pp \in TransitPairs :
          /\ TransitPairDistance(pp) \in {Deg(66), Deg(128)} => TransitEntries(pp) = {}
          /\ \A i \in TransitEntries(pp) :
                /\ TransitPairDistance(pp) = Deg(60)
                      => (transit_aspects[i].aspect = "sextile" /\ transit_aspects[i].orb = 0)
                /\ 2 * TransitPairDistance(pp) = Deg(123)
                      => (transit_aspects[i].aspect = "sextile" /\ transit_aspects[i].orb = 15)
                /\ TransitPairDistance(pp) = Deg(90)
                      => (transit_aspects[i].aspect = "square" /\ transit_aspects[i].orb = 0)

\* the reported orb (hundredths at the synastry site, tenths at the transit
\* site) lies between 0 and the tolerance
OrbWithinTolerance ==
    /\ SynastryDone => \A i \in DOMAIN synastry_aspects :
          /\ 0 <= synastry_aspects[i].orb
          /\ synastry_aspects[i].orb <= 100 * SynastryTolerance[synastry_aspects[i].aspect_type]
    /\ TransitsDone => \A i \in DOMAIN transit_aspects :
          /\ 0 <= transit_aspects[i].orb
          /\ transit_aspects[i].orb <= 10 * TransitTolerance[transit_aspects[i].aspect]

\* C1 as stated: emission iff within the call site's tolerance, the worked
\* examples, and a reported orb that EQUALS |diff - angle|
C1_OrbIsExactDeviation ==
    /\ EmittedIffWithinTolerance
    /\ AspectExamples
    /\ OrbWithinTolerance
    /\ SynastryDone => \A pp \in SynastryPairs : \A i \in SynastryEntries(pp) :
          synastry_aspects[i].orb * Unit
              = 100 * DeviationFrom(SynastryPairDistance(pp), synastry_aspects[i].aspect_type)
    /\ TransitsDone => \A pp \in TransitPairs : \A i \in TransitEntries(pp) :
          transit_aspects[i].orb * Unit
              = 10 * DeviationFrom(TransitPairDistance(pp), transit_aspects[i].aspect)

\* C1 amended: emission iff within the call site's tolerance, the worked
\* examples, and a reported orb that is |diff - angle| rounded to two decimals
\* by the synastry fallback and to one decimal by the transit engine, hence
\* between 0 and the tolerance
C1_OrbIsRoundedDeviation ==
    /\ EmittedIffWithinTolerance
    /\ AspectExamples
    /\ OrbWithinTolerance
    /\ SynastryDone => \A pp \in SynastryPairs : \A i \in SynastryEntries(pp) :
          synastry_aspects[i].orb
              = RoundHalfEven(100 * DeviationFrom(SynastryPairDistance(pp),
                                                  synastry_aspects[i].aspect_type), Unit)
    /\ TransitsDone => \A pp \in TransitPairs : \A i \in TransitEntries(pp) :
          transit_aspects[i].orb
              = RoundHalfEven(10 * DeviationFrom(TransitPairDistance(pp),
                                                 transit_aspects[i].aspect), Unit)

\* the transit engine has reported a deviation of 1.25 degrees as orb 1.2
C1_Witness ==
    /\ TransitsDone
    /\ \E pp \in TransitPairs : \E i \in TransitEntries(pp) :
          /\ TransitPairDistance(pp) = Deg(60) + 10 * Eighth
          /\ transit_aspects[i].aspect = "sextile"
          /\ transit_aspects[i].orb = 12

\* the candidates of a call site that are within tolerance of a distance
WithinSynastry(diff) ==
    {a \in AspectNames : DeviationFrom(diff, a) <= Deg(SynastryTolerance[a])}
WithinTransit(diff) ==
    {a \in AspectNames : DeviationFrom(diff, a) <= Deg(TransitTolerance[a])}

\* the first in candidate order of a non-empty set of aspect names
FirstCandidate(S) == CHOOSE a \in S : \A b \in S : CandidateRank[a] <= CandidateRank[b]

\* a candidate table whose windows overlap: 60 +- 40 and 90 +- 40
OverlappingAngles ==
    << [name |-> "sextile", angle |-> 60, orb |-> 40],
       [name |-> "square",  angle |-> 90, orb |-> 40] >>

\* C2: every examined pair yields at most one aspect, and the aspect emitted is
\* the first candidate, in the order conjunction, sextile, square, trine,
\* opposition, that is within tolerance; where windows overlap the candidate
\* loop still stops at the first match (a distance within 40 of both 60 and 90
\* is classified by the first candidate although the second is nearer)
C2_FirstMatchOnly ==
    /\ SynastryDone => \A pp \in SynastryPairs :
          /\ Cardinality(SynastryEntries(pp)) <= 1
          /\ WithinSynastry(SynastryPairDistance(pp)) = {} => SynastryEntries(pp) = {}
          /\ WithinSynastry(SynastryPairDistance(pp)) # {} =>
                \E i \in SynastryEntries(pp) :
                    synastry_aspects[i].aspect_type
                        = FirstCandidate(WithinSynastry(SynastryPairDistance(pp)))
          /\ (Deg(50) <= SynastryPairDistance(pp) /\ SynastryPairDistance(pp) <= Deg(100))
                => FirstMatch(OverlappingAngles, SynastryPairDistance(pp)) = 1
    /\ TransitsDone => \A pp \in TransitPairs :
          /\ Cardinality(TransitEntries(pp)) <= 1
          /\ WithinTransit(TransitPairDistance(pp)) = {} => TransitEntries(pp) = {}
          /\ WithinTransit(TransitPairDistance(pp)) # {} =>
                \E i \in TransitEntries(pp) :
                    transit_aspects[i].aspect
                        = FirstCandidate(WithinTransit(TransitPairDistance(pp)))
          /\ (Deg(50) <= TransitPairDistance(pp) /\ TransitPairDistance(pp) <= Deg(100))
                => FirstMatch(OverlappingAngles, TransitPairDistance(pp)) = 1
    /\ SynastryDone => Len(synastry_aspects) <= Cardinality(SynastryPairs)
    /\ TransitsDone => Len(transit_aspects) <= Cardinality(TransitPairs)

\* the fallback has examined 25 pairs, one of them 80 degrees apart (nearer
\* to 90 than to 60), and emitted one aspect for each of at least five pairs
C2_Witness ==
    /\ SynastryDone
    /\ Cardinality(SynastryPairs) = 25
    /\ Len(synastry_aspects) >= 5
    /\ \E pp \in SynastryPairs : SynastryPairDistance(pp) = Deg(80)

\* the entry of person 2's planet against person 1's planet
Mirror(e) ==
    [e EXCEPT !.person1_planet = e.person2_planet, !.person2_planet = e.person1_planet]

\* the set of the elements of a sequence
Elements(s) == {s[i] : i \in DOMAIN s}

\* C3: the angular distance of the synastry fallback and of the transit engine
\* is symmetric in its two longitudes, lies in [0,180], is the same function at
\* both call sites; exchanging the two charts therefore gives the fallback the
\* same aspects with the two planets exchanged
C3_DistanceSymmetricInRange ==
    /\ pc \in {"synastry_done", "transits_done"} =>
          \A k1 \in ChartKeys, k2 \in ChartKeys :
              (chart1[k1] # None /\ chart2[k2] # None) =>
                  LET a == chart1[k1].degree
                      b == chart2[k2].degree
                  IN  /\ SynastryDiff(a, b) = SynastryDiff(b, a)
                      /\ TransitDiff(a, b) = TransitDiff(b, a)
                      /\ SynastryDiff(a, b) = TransitDiff(a, b)
                      /\ 0 <= SynastryDiff(a, b) /\ SynastryDiff(a, b) <= Deg(180)
                      /\ 0 <= TransitDiff(a, b) /\ TransitDiff(a, b) <= Deg(180)
    /\ SynastryDone =>
          Elements(calculate_manual_synastry(chart2, chart1))
              = {Mirror(e) : e \in Elements(synastry_aspects)}

\* two Suns 300 degrees apart on the circle have been found 60 degrees apart
C3_Witness ==
    /\ SynastryDone
    /\ chart1["sun"] # None /\ chart2["sun"] # None
    /\ chart1["sun"].degree = 0
    /\ chart2["sun"].degree = Deg(300)
    /\ \E i \in DOMAIN synastry_aspects :
          /\ synastry_aspects[i].person1_planet = "Sun"
          /\ synastry_aspects[i].person2_planet = "Sun"
          /\ synastry_aspects[i].aspect_type = "sextile"
          /\ synastry_aspects[i].orb = 0

(***************************************************************************)
(* Properties of the Synastry Scoring Engine (specification SpecScore)     *)
(***************************************************************************)
WeightedDone == pc = "weighted_done"
CompatDone == pc = "compat_done"

\* the five score fields of each of the two scoring functions lie in [0,100]
ScoreFieldsInRange ==
    /\ WeightedDone =>
          \A f \in {"overall", "chemistry", "emotional", "intellectual", "challenges_score"} :
              0 <= weighted_scores[f] /\ weighted_scores[f] <= 100
    /\ CompatDone =>
          \A f \in {"overall", "emotional", "intellectual", "physical", "spiritual"} :
              0 <= compat_scores[f] /\ compat_scores[f] <= 100

\* C8 as stated: every score field lies in [0,100] and the overall score of
\* both calculate_weighted_score and calculate_compatibility_scores in [15,95]
C8_OverallOfBothIn15To95 ==
    /\ ScoreFieldsInRange
    /\ WeightedDone => (15 <= weighted_scores.overall /\ weighted_scores.overall <= 95)
    /\ CompatDone => (15 <= compat_scores.overall /\ compat_scores.overall <= 95)

\* C8 amended: every score field of both functions lies in [0,100]; the overall
\* score of calculate_weighted_score lies in [15,95], the overall score of
\* calculate_compatibility_scores only in [0,100]
C8_ScoreRanges ==
    /\ ScoreFieldsInRange
    /\ WeightedDone => (15 <= weighted_scores.overall /\ weighted_scores.overall <= 95)

\* three strong chemistry aspects have been scored: the raw chemistry total
\* would give more than 100, the ratio of the overall score more than 95
C8_Witness ==
    /\ WeightedDone
    /\ Len(aspects) = 3
    /\ FloatLess(FloatOfInt(100),
                 FloatAdd(Float50, FloatMul(weighted_locals.chemistry_raw, Float2_5)))
    /\ weighted_scores.chemistry = 100
    /\ weighted_scores.overall = 95

\* the sum of the final scores of the aspects, added in list order
SumOfContributions ==
    FloatSumTo([i \in DOMAIN weighted_locals.per_aspect |->
                   weighted_locals.per_aspect[i].final_score],
               Len(weighted_locals.per_aspect))

\* the sum of |base_score * weight| over the aspects, added in list order
SumOfMagnitudes ==
    FloatSumTo([i \in DOMAIN weighted_locals.per_aspect |->
                   FloatAbs(FloatMul(FloatOfInt(weighted_locals.per_aspect[i].base_score),
                                     weighted_locals.per_aspect[i].weight))],
               Len(weighted_locals.per_aspect))

\* clamp(50 + (w / m) * 50, 15, 95) truncated to an integer, in float
\* arithmetic, for m > 0
ClampedRatio(w, m) ==
    LET t == FloatTrunc(FloatAdd(Float50, FloatMul(FloatDiv(w, m), Float50)))
    IN  IF t < 15 THEN 15 ELSE IF t > 95 THEN 95 ELSE t

\* clamp(50 + raw * scale, 0, 100) truncated to an integer, in float
\* arithmetic
ClampedCategory(raw, scale) ==
    LET t == FloatTrunc(FloatAdd(Float50, FloatMul(raw, scale)))
    IN  IF t < 0 THEN 0 ELSE IF t > 100 THEN 100 ELSE t

\* the category scores are the clamped and truncated raw totals, with scale
\* 2.5 for chemistry and emotional and 3 for intellectual
CategoryScoresFromRaw ==
    WeightedDone =>
        /\ weighted_scores.chemistry = ClampedCategory(weighted_locals.chemistry_raw, FloatOfTenths(25))
        /\ weighted_scores.emotional = ClampedCategory(weighted_locals.emotional_raw, FloatOfTenths(25))
        /\ weighted_scores.intellectual = ClampedCategory(weighted_locals.intellectual_raw, FloatOfInt(3))

\* C9 as stated: overall = clamp(50 + (W / M) * 50, 15, 95) truncated, W being
\* the sum of the per-aspect contributions alone, and 50 when M = 0; the
\* category scores are the clamped raw totals
C9_OverallFromAspectsAlone ==
    /\ CategoryScoresFromRaw
    /\ WeightedDone =>
          IF FloatIsZero(SumOfMagnitudes) THEN weighted_scores.overall = 50
          ELSE weighted_scores.overall = ClampedRatio(SumOfContributions, SumOfMagnitudes)

\* C9 amended: overall = clamp(50 + (W / M) * 50, 15, 95) truncated, where W
\* is the sum of the per-aspect contributions PLUS the element bonus (8 or 4
\* for the Suns, 6 or 3 for the Moons), M the sum of |base * weight|, and
\* overall is 50 without a division when M = 0; the category scores are the
\* clamped, truncated raw totals (scale 2.5, 2.5 and 3)
C9_OverallIncludesElementBonus ==
    /\ CategoryScoresFromRaw
    /\ WeightedDone =>
          IF FloatIsZero(SumOfMagnitudes) THEN weighted_scores.overall = 50
          ELSE weighted_scores.overall
                  = ClampedRatio(FloatAdd(SumOfContributions,
                                          FloatOfInt(weighted_locals.element_bonus)),
                                 SumOfMagnitudes)

\* three aspects and an element bonus of 14 have given an overall score that
\* no clamp has touched
C9_Witness ==
    /\ WeightedDone
    /\ Len(aspects) = 3
    /\ weighted_locals.element_bonus = 14
    /\ FloatSign(weighted_locals.max_possible_score) > 0
    /\ 15 < weighted_scores.overall /\ weighted_scores.overall < 95

\* the table entry of a planet pair in whichever order it is listed
ListedPair(p1, p2) == {<<p1, p2>>, <<p2, p1>>} \cap DOMAIN PLANET_PAIR_WEIGHTS
ListedSpecial(p1, p2, t) == {<<p1, p2, t>>, <<p2, p1, t>>} \cap DOMAIN SPECIAL_ASPECT_SCORES

\* weight, category and base score of an aspect as the claim gives them
ClaimedWeight(a) ==
    LET keys == ListedPair(a.person1_planet, a.person2_planet)
    IN  FloatOfTenths(IF keys = {} THEN 5
                      ELSE PLANET_PAIR_WEIGHTS[CHOOSE k \in keys : TRUE].weight)
ClaimedCategory(a) ==
    LET keys == ListedPair(a.person1_planet, a.person2_planet)
    IN  IF keys = {} THEN "emotional"
        ELSE PLANET_PAIR_WEIGHTS[CHOOSE k \in keys : TRUE].category
ClaimedBase(a) ==
    LET type == Lower(a.aspect_type)
        keys == ListedSpecial(a.person1_planet, a.person2_planet, type)
    IN  IF keys # {} THEN SPECIAL_ASPECT_SCORES[CHOOSE k \in keys : TRUE]
        ELSE IF type = "conjunction"
        THEN IF {a.person1_planet, a.person2_planet} \cap {"Saturn", "Pluto"} # {}
             THEN ASPECT_BASE_SCORES["conjunction"].challenging
             ELSE ASPECT_BASE_SCORES["conjunction"].harmonious
        ELSE IF type \in DOMAIN ASPECT_BASE_SCORES
        THEN ASPECT_BASE_SCORES[type]
        ELSE 0

\* max(0.5, 1 - orb/10) in float arithmetic, orb in hundredths
ClaimedAttenuation(orb) ==
    LET linear == FloatSub(FloatOfInt(1), FloatDiv(FloatOfHundredths(orb), FloatOfInt(10)))
    IN  IF FloatLess(linear, FloatOfTenths(5)) THEN FloatOfTenths(5) ELSE linear

\* base * weight * attenuation of an aspect, multiplied in this order
ClaimedContribution(a) ==
    FloatMul(FloatMul(FloatOfInt(ClaimedBase(a)), ClaimedWeight(a)),
             ClaimedAttenuation(a.orb))

\* the sum of the claimed contributions of the aspects of one category, added
\* in list order
ClaimedTotal(category) ==
    FloatSumTo([i \in DOMAIN aspects |->
                   IF ClaimedCategory(aspects[i]) = category
                   THEN ClaimedContribution(aspects[i]) ELSE FloatZero],
               Len(aspects))

\* what the Moon elements add to the emotional total
MoonBonusRaw ==
    IF weighted_scores.element_compatibility.moon_match THEN 5
    ELSE IF weighted_scores.element_compatibility.bonus \in {3, 7, 11} THEN 3 ELSE 0

\* C10: every aspect contributes base * weight * max(0.5, 1 - orb/10), the
\* base being the special score of (planet1, planet2, type) in either planet
\* order and else the generic score of the type, the weight the table weight
\* of the pair in either order and 0.5 for an unlisted pair; the contribution
\* goes to exactly one category total, the one of the pair (emotional for an
\* unlisted pair)
C10_PerAspectContribution ==
    WeightedDone =>
        /\ \A i \in DOMAIN aspects :
              /\ weighted_locals.per_aspect[i].final_score = ClaimedContribution(aspects[i])
              /\ weighted_locals.per_aspect[i].category = ClaimedCategory(aspects[i])
              /\ ({aspects[i].person1_planet, aspects[i].person2_planet} = {"Sun", "Moon"}
                    /\ Lower(aspects[i].aspect_type) = "conjunction")
                    => weighted_locals.per_aspect[i].base_score = 15
              /\ {aspects[i].person1_planet, aspects[i].person2_planet}
                    \in {{"Sun", "Moon"}, {"Venus", "Mars"}}
                    => weighted_locals.per_aspect[i].weight = FloatOfInt(2)
              /\ ListedPair(aspects[i].person1_planet, aspects[i].person2_planet) = {}
                    => (weighted_locals.per_aspect[i].weight = FloatOfTenths(5)
                          /\ weighted_locals.per_aspect[i].category = "emotional")
        /\ weighted_locals.chemistry_raw = ClaimedTotal("chemistry")
        /\ weighted_locals.emotional_raw
              = FloatAdd(ClaimedTotal("emotional"), FloatOfInt(MoonBonusRaw))
        /\ weighted_locals.intellectual_raw = ClaimedTotal("intellectual")
        /\ weighted_locals.challenges_raw = ClaimedTotal("challenges")

\* a Moon-Sun trine (special score listed as Sun-Moon), an orb above 5 degrees
\* and an unlisted pair have been scored together
C10_Witness ==
    /\ WeightedDone
    /\ Len(aspects) = 3
    /\ aspects[1] = SynastryAspect("Moon", "Sun", "trine", 250)
    /\ weighted_locals.per_aspect[1].final_score = FloatOfInt(18)
    /\ aspects[2] = SynastryAspect("Venus", "Mars", "square", 600)
    /\ weighted_locals.per_aspect[2].final_score = FloatOfInt(5)
    /\ aspects[3] = SynastryAspect("Mercury", "Jupiter", "sextile", 480)
    /\ weighted_locals.per_aspect[3].category = "emotional"

(***************************************************************************)
(* Properties of the base scores and of the orb modifier (SpecPairs)       *)
(***************************************************************************)
\* the generic score of an aspect type as the claim lists it
ClaimedGeneric(p1, p2, t) ==
    IF t = "trine" THEN 8
    ELSE IF t = "sextile" THEN 7
    ELSE IF t = "square" THEN 0 - 6
    ELSE IF t = "opposition" THEN 0 - 5
    ELSE IF t = "quincunx" THEN 0 - 3
    ELSE IF {p1, p2} \cap {"Saturn", "Pluto"} # {} THEN 0 - 3 ELSE 5

\* the generic score of an aspect type as calculate_weighted_score uses it
WeightedGeneric(p1, p2, t) ==
    IF t = "trine" THEN 8
    ELSE IF t = "sextile" THEN 5
    ELSE IF t = "square" THEN 0 - 6
    ELSE IF t = "opposition" THEN 0 - 4
    ELSE IF t = "quincunx" THEN 0 - 2
    ELSE IF {p1, p2} \cap {"Saturn", "Pluto"} # {} THEN 0 - 3 ELSE 10

\* the six aspect types the claim lists
ListedTypes == {"conjunction", "sextile", "square", "trine", "opposition", "quincunx"}

\* the aspects scored that have no special-case entry in either planet order
GenericAspects ==
    { i \in DOMAIN aspects :
        /\ aspects[i].aspect_type \in ListedTypes
        /\ ListedSpecial(aspects[i].person1_planet, aspects[i].person2_planet,
                         aspects[i].aspect_type) = {} }

\* C11 as stated: without a special-case entry in either order the base score
\* is trine +8, sextile +7, square -6, opposition -5, quincunx -3, and for a
\* conjunction +5, or -3 when either planet is Saturn or Pluto
C11_GenericScoresAsListed ==
    WeightedDone =>
        \A i \in GenericAspects :
            weighted_locals.per_aspect[i].base_score
                = ClaimedGeneric(aspects[i].person1_planet, aspects[i].person2_planet,
                                 aspects[i].aspect_type)

\* C11 amended: without a special-case entry in either order the base score
\* of calculate_weighted_score is trine +8, sextile +5, square -6,
\* opposition -4, quincunx -2, and for a conjunction +10, or -3 when either
\* planet is Saturn or Pluto
C11_GenericScoresOfWeightedScore ==
    WeightedDone =>
        \A i \in GenericAspects :
            weighted_locals.per_aspect[i].base_score
                = WeightedGeneric(aspects[i].person1_planet, aspects[i].person2_planet,
                                  aspects[i].aspect_type)

\* a conjunction whose second planet is Pluto, with no special-case entry,
\* has been scored -3
C11_Witness ==
    /\ WeightedDone
    /\ aspects[1].person1_planet = "Moon"
    /\ aspects[1].person2_planet = "Pluto"
    /\ aspects[1].aspect_type = "conjunction"
    /\ 1 \in GenericAspects
    /\ weighted_locals.per_aspect[1].base_score = 0 - 3

\* C12: the orb modifier max(0.5, 1 - orb/10) does not increase with the orb,
\* is 1 at orb 0, stays within [0.5, 1] and is 0.5 from 5 degrees on; of two
\* aspects that differ in the orb only, the tighter one does not have the
\* smaller absolute contribution
C12_OrbModifierMonotone ==
    WeightedDone =>
        /\ \A i \in DOMAIN aspects :
              /\ FloatLeq(FloatOfTenths(5), weighted_locals.per_aspect[i].orb_modifier)
              /\ FloatLeq(weighted_locals.per_aspect[i].orb_modifier, FloatOfInt(1))
              /\ aspects[i].orb = 0
                    => weighted_locals.per_aspect[i].orb_modifier = FloatOfInt(1)
              /\ aspects[i].orb >= 500
                    => weighted_locals.per_aspect[i].orb_modifier = FloatOfTenths(5)
        /\ \A i, j \in DOMAIN aspects :
              aspects[i].orb <= aspects[j].orb =>
                  /\ FloatLeq(weighted_locals.per_aspect[j].orb_modifier,
                              weighted_locals.per_aspect[i].orb_modifier)
                  /\ (/\ aspects[i].person1_planet = aspects[j].person1_planet
                      /\ aspects[i].person2_planet = aspects[j].person2_planet
                      /\ aspects[i].aspect_type = aspects[j].aspect_type)
                        => FloatLeq(FloatAbs(weighted_locals.per_aspect[j].final_score),
                                    FloatAbs(weighted_locals.per_aspect[i].final_score))

\* a Venus-Mars trine of orb 2.5 and one of orb 6 have been scored: the
\* modifiers are 0.75 and 0.5 and the tighter one contributes more
C12_Witness ==
    /\ WeightedDone
    /\ aspects = <<SynastryAspect("Venus", "Mars", "trine", 250),
                   SynastryAspect("Venus", "Mars", "trine", 600)>>
    /\ weighted_locals.per_aspect[1].orb_modifier = FloatOfHundredths(75)
    /\ weighted_locals.per_aspect[2].orb_modifier = FloatOfTenths(5)
    /\ FloatLess(weighted_locals.per_aspect[2].final_score,
                 weighted_locals.per_aspect[1].final_score)

(***************************************************************************)
(* Properties of the element bonus and of empty input (SpecElements)       *)
(***************************************************************************)
\* the call has returned a record of scores
WeightedReturned == WeightedDone /\ "overall" \in DOMAIN weighted_scores
CompatReturned == CompatDone /\ "overall" \in DOMAIN compat_scores

\* the call has raised
WeightedRaised == WeightedDone /\ "error" \in DOMAIN weighted_scores
CompatRaised == CompatDone /\ "error" \in DOMAIN compat_scores

FourElements == {"Fire", "Earth", "Air", "Water"}

\* the chart carries an element for the body
CarriesElement(chart, key) ==
    /\ key \in DOMAIN chart
    /\ chart[key] # None
    /\ chart[key].element \in FourElements

\* both charts carry an element for the body and the two elements are equal
\* or one of the compatible pairs Fire-Air, Earth-Water
BonusDue(key) ==
    /\ CarriesElement(chart1, key)
    /\ CarriesElement(chart2, key)
    /\ \/ chart1[key].element = chart2[key].element
       \/ {chart1[key].element, chart2[key].element} \in {{"Fire", "Air"}, {"Earth", "Water"}}

\* the Sun part (0, 4 or 8) and the Moon part (0, 3 or 6) of the element bonus
\* of calculate_weighted_score
SunBonusGiven ==
    CHOOSE sb \in {0, 4, 8} : (weighted_locals.element_bonus - sb) \in {0, 3, 6}
MoonBonusGiven == weighted_locals.element_bonus - SunBonusGiven

\* the sum of the harmony scores of the aspects scored
HarmonySum == SumSeq([i \in DOMAIN aspects |-> aspects[i].harmony_score])

\* what calculate_compatibility_scores added to the harmony sum (the overall
\* scores of these inputs are not touched by the clamp)
CompatBonusGiven == (compat_scores.overall - 50) \div 2 - HarmonySum

\* C13: an element bonus is added only when both charts carry a Sun element
\* (for the Moon bonus a Moon element) and the two are equal or compatible
\* (Fire-Air, Earth-Water); no bonus is added for any other combination,
\* a missing or 'Unknown' element included; in calculate_weighted_score for
\* Sun and Moon, in calculate_compatibility_scores for the Sun
C13_BonusOnlyForKnownElements ==
    /\ WeightedReturned =>
          /\ SunBonusGiven > 0 <=> BonusDue("sun")
          /\ MoonBonusGiven > 0 <=> BonusDue("moon")
    /\ CompatReturned => (CompatBonusGiven > 0 <=> BonusDue("sun"))

\* the category scores of the two functions
WeightedCategories == {"chemistry", "emotional", "intellectual", "challenges_score"}
CompatCategories == {"emotional", "intellectual", "physical", "spiritual"}

\* C14: on an empty aspect list calculate_weighted_score and
\* calculate_compatibility_scores complete without error and every category
\* score is the neutral 50, for every pair of charts
C14_EmptyInputNeutral ==
    aspects = << >> =>
        /\ ~WeightedRaised
        /\ ~CompatRaised
        /\ WeightedReturned => \A f \in WeightedCategories : weighted_scores[f] = 50
        /\ CompatReturned => \A f \in CompatCategories : compat_scores[f] = 50

(***************************************************************************)
(* Properties of the transit summary (specification SpecAspect)            *)
(***************************************************************************)
\* the place of a planet in the loops of calculate_transits
PlanetRank ==
    "Sun" :> 1 @@ "Moon" :> 2 @@ "Mercury" :> 3 @@ "Venus" :> 4 @@ "Mars" :> 5
        @@ "Jupiter" :> 6 @@ "Saturn" :> 7

\* the place of a transit aspect in the detection order: transiting planet
\* first, natal planet within it
DetectionRank(t) == 7 * PlanetRank[t.transiting_planet] + PlanetRank[t.natal_planet]

\* a is listed before b: tighter orb, or equal orb and detected earlier
ListedBefore(a, b) ==
    \/ a.orb < b.orb
    \/ a.orb = b.orb /\ DetectionRank(a) < DetectionRank(b)

\* the detected transit aspects and those among them that are returned
DetectedTransits == {transit_aspects[i] : i \in DOMAIN transit_aspects}
ReturnedTransits == {transit_summary.transits[i] : i \in DOMAIN transit_summary.transits}

\* C15: 'transits' holds the detected transit aspects sorted ascending by orb
\* and cut to the 10 tightest: at most 10 entries, orbs non-decreasing, no
\* aspect left out is tighter than one included, and aspects of equal orb
\* keep their detection order
C15_TenTightestInOrder ==
    TransitsDone =>
        /\ Len(transit_summary.transits) <= 10
        /\ Len(transit_summary.transits) = Min(10, Cardinality(DetectedTransits))
        /\ ReturnedTransits \subseteq DetectedTransits
        /\ \A i \in 1..(Len(transit_summary.transits) - 1) :
              /\ transit_summary.transits[i].orb <= transit_summary.transits[i + 1].orb
              /\ ListedBefore(transit_summary.transits[i], transit_summary.transits[i + 1])
        /\ \A out \in DetectedTransits \ ReturnedTransits :
              \A in \in ReturnedTransits : in.orb <= out.orb /\ ListedBefore(in, out)

\* more than 10 aspects were detected, two returned ones have the same orb,
\* and an aspect left out has the orb of the last one returned
C15_Witness ==
    /\ TransitsDone
    /\ Cardinality(DetectedTransits) > 10
    /\ Len(transit_summary.transits) = 10
    /\ \E i \in 1..9 :
          transit_summary.transits[i].orb = transit_summary.transits[i + 1].orb
    /\ \E out \in DetectedTransits \ ReturnedTransits :
          out.orb = transit_summary.transits[10].orb

\* the sum of the harmony values of ALL detected transit aspects
TotalHarmony == SumSeq([i \in DOMAIN transit_aspects |-> transit_aspects[i].harmony])

\* the sum of the harmony values of the returned transit aspects
ReturnedHarmony ==
    SumSeq([i \in DOMAIN transit_summary.transits |-> transit_summary.transits[i].harmony])

Sign(x) == IF x > 0 THEN 1 ELSE IF x < 0 THEN 0 - 1 ELSE 0

\* C16: overall_energy is the sign of the harmony summed over all detected
\* transit aspects, not only the returned ones: harmonious iff the sum is
\* positive, challenging iff negative, neutral iff 0, and neutral when no
\* aspect is detected
C16_EnergyOverAllDetected ==
    TransitsDone =>
        /\ transit_summary.overall_energy = "harmonious" <=> TotalHarmony > 0
        /\ transit_summary.overall_energy = "challenging" <=> TotalHarmony < 0
        /\ transit_summary.overall_energy = "neutral" <=> TotalHarmony = 0
        /\ transit_aspects = << >> =>
              (transit_summary.overall_energy = "neutral"
                  /\ transit_summary.harmony_score = 0)

\* more than 10 aspects were detected and the harmony of the 10 returned has
\* another sign than the harmony of all
C16_Witness ==
    /\ TransitsDone
    /\ Len(transit_aspects) > 10
    /\ Sign(ReturnedHarmony) # Sign(TotalHarmony)
    /\ transit_summary.overall_energy # "neutral"

\* the first two keywords of the natal planets of the 5 tightest transits
TopKeywords ==
    UNION { IF transit_aspects[i].natal_planet \in DOMAIN planet_areas
            THEN { planet_areas[transit_aspects[i].natal_planet][1],
                   planet_areas[transit_aspects[i].natal_planet][2] }
            ELSE {} : i \in {j \in DOMAIN transit_aspects : j <= 5} }

\* C17: the focus areas of the orb-sorted transit list have no duplicates and
\* at most 5 entries, each one of the first two keywords of the natal planet
\* of one of the 5 tightest transits; no transit gives no focus area
C17_FocusAreasFromTopFive ==
    TransitsDone =>
        /\ Len(transit_summary.focus_areas) <= 5
        /\ \A i, j \in DOMAIN transit_summary.focus_areas :
              transit_summary.focus_areas[i] = transit_summary.focus_areas[j] => i = j
        /\ \A i \in DOMAIN transit_summary.focus_areas :
              transit_summary.focus_areas[i] \in TopKeywords
        /\ Len(transit_summary.focus_areas) = Min(5, Cardinality(TopKeywords))
        /\ transit_aspects = << >> => transit_summary.focus_areas = << >>

\* the 5 tightest transits give more than 5 keywords, a later transit has a
\* natal planet of its own, and 5 focus areas are returned
C17_Witness ==
    /\ TransitsDone
    /\ Cardinality(TopKeywords) > 5
    /\ Len(transit_summary.focus_areas) = 5
    /\ \E i \in DOMAIN transit_aspects :
          /\ i > 5
          /\ \A j \in 1..5 : transit_aspects[j].natal_planet # transit_aspects[i].natal_planet

(***************************************************************************)
(* Properties of the synastry report (specification SpecSynastry)          *)
(***************************************************************************)
\* calculate_synastry has returned its report
SynastryReported == pc = "synastry_reported" /\ "key_aspects" \in DOMAIN report

\* calculate_synastry has raised
SynastryRaised == pc = "synastry_reported" /\ "error" \in DOMAIN report

\* the ordered pairs the fallback examines: both planets among sun, moon,
\* venus, mars, mercury and held by the two charts
FallbackPairs ==
    {pp \in {"sun", "moon", "venus", "mars", "mercury"}
                \X {"sun", "moon", "venus", "mars", "mercury"} :
        chart1[pp[1]] # None /\ chart2[pp[2]] # None}

\* the place of a planet in the list of the fallback
FallbackRank ==
    "Sun" :> 1 @@ "Moon" :> 2 @@ "Venus" :> 3 @@ "Mars" :> 4 @@ "Mercury" :> 5

\* the place of an aspect's pair in the iteration order of the fallback
IterationRank(a) == 5 * FallbackRank[a.person1_planet] + FallbackRank[a.person2_planet]

\* the key aspects are those of the fallback: one entry for each examined pair
\* within tolerance of an aspect, of that type, in iteration order, no quincunx
KeyAspectsFromFallback ==
    /\ \A i \in DOMAIN report.key_aspects :
          /\ report.key_aspects[i].aspect_type \in AspectNames
          /\ \E pp \in FallbackPairs :
                /\ report.key_aspects[i].person1_planet = Capitalize[pp[1]]
                /\ report.key_aspects[i].person2_planet = Capitalize[pp[2]]
                /\ DeviationFrom(SynastryPairDistance(pp), report.key_aspects[i].aspect_type)
                      <= Deg(SynastryTolerance[report.key_aspects[i].aspect_type])
    /\ \A pp \in FallbackPairs :
          (\E a \in AspectNames :
                DeviationFrom(SynastryPairDistance(pp), a) <= Deg(SynastryTolerance[a]))
             => \E i \in DOMAIN report.key_aspects :
                    /\ report.key_aspects[i].person1_planet = Capitalize[pp[1]]
                    /\ report.key_aspects[i].person2_planet = Capitalize[pp[2]]
    /\ \A i \in 1..(Len(report.key_aspects) - 1) :
          IterationRank(report.key_aspects[i]) < IterationRank(report.key_aspects[i + 1])

\* the scores of the report are those of its key aspects: the counts of the
\* harmonious and challenging ones and the overall score of their harmony
\* sum and the Sun element bonus
ScoresFromKeyAspects ==
    LET harmony == SumSeq([i \in DOMAIN report.key_aspects |->
                              report.key_aspects[i].harmony_score])
        bonus   == IF chart1["sun"].element = chart2["sun"].element THEN 10
                   ELSE IF {chart1["sun"].element, chart2["sun"].element}
                              \in {{"Fire", "Air"}, {"Earth", "Water"}} THEN 5
                   ELSE 0
        raw     == 50 + 2 * (harmony + bonus)
    IN  /\ report.harmonious_aspects_count
              = Cardinality({i \in DOMAIN report.key_aspects :
                                report.key_aspects[i].harmony_score > 0})
        /\ report.challenging_aspects_count
              = Cardinality({i \in DOMAIN report.key_aspects :
                                report.key_aspects[i].harmony_score < 0})
        /\ report.compatibility_score
              = (IF raw < 0 THEN 0 ELSE IF raw > 100 THEN 100 ELSE raw)

\* C18: when the aspect library raises, the report is still produced, its key
\* aspects are those of the manual fallback (exactly the ordered pairs of
\* sun, moon, venus, mars, mercury that both charts hold, in iteration order,
\* never a quincunx) and its scores are computed from that list
C18_FallbackReport ==
    (pc = "synastry_reported" /\ library_aspects.raised) =>
        /\ SynastryReported
        /\ KeyAspectsFromFallback
        /\ ScoresFromKeyAspects

\* what of C18 holds whenever a report is produced after the library raised
FallbackReportWhenProduced ==
    (SynastryReported /\ library_aspects.raised) =>
        /\ KeyAspectsFromFallback
        /\ ScoresFromKeyAspects

\* C19: key_aspects never has more than 20 entries, whether the library or
\* the manual fallback produced it
C19_AtMostTwentyKeyAspects ==
    SynastryReported => Len(report.key_aspects) <= 20

(***************************************************************************)
(* Properties of the natal chart (specification SpecNatal)                 *)
(***************************************************************************)
\* calculate_natal_chart has returned a chart
NatalReported == pc = "natal_reported" /\ "aspects" \in DOMAIN report

\* the aspects of the chart are the first 15 of the library's list, in the
\* library's order
FirstFifteenInOrder ==
    /\ Len(report.aspects) <= 15
    /\ Len(report.aspects) = Min(15, Len(library_aspects.relevant_aspects))
    /\ \A i \in DOMAIN report.aspects :
          /\ report.aspects[i].planet1 = library_aspects.relevant_aspects[i].p1_name
          /\ report.aspects[i].planet2 = library_aspects.relevant_aspects[i].p2_name
          /\ report.aspects[i].is_applying = library_aspects.relevant_aspects[i].is_applying
          /\ 10 * report.aspects[i].orb - library_aspects.relevant_aspects[i].orbit \in -5..5

\* the chart holds the positions the ephemeris gave and the summary of their
\* Big Three
PositionsAndSummaryUnaffected ==
    /\ report.positions = chart1
    /\ report.sun_moon_rising_summary.sun_sign = chart1["sun"].sign
    /\ report.sun_moon_rising_summary.moon_sign = chart1["moon"].sign
    /\ chart1["rising"] # None
          => report.sun_moon_rising_summary.rising_sign = chart1["rising"].sign

\* C20: calculate_natal_chart returns at most 15 aspects, the first 15 of the
\* library's list in the library's order; when the library raises the chart
\* is still returned, with an empty aspect list and with the positions and
\* the summary unaffected
C20_NatalAspects ==
    /\ (NatalReported /\ ~library_aspects.raised) => FirstFifteenInOrder
    /\ (pc = "natal_reported" /\ library_aspects.raised) =>
          /\ NatalReported
          /\ report.aspects = << >>
          /\ PositionsAndSummaryUnaffected

\* what of C20 holds whenever a chart is returned
NatalAspectsWhenReturned ==
    NatalReported =>
        /\ PositionsAndSummaryUnaffected
        /\ IF library_aspects.raised THEN report.aspects = << >> ELSE FirstFifteenInOrder

(***************************************************************************)
(* Properties of the ephemeris adapter (specification SpecPlanet)          *)
(***************************************************************************)
PlanetDone == pc = "planet_done" /\ report # None

\* C21: for every record of the ephemeris get_planet_data yields a position
\* whose house is an integer in 1..12 and whose is_retrograde is a boolean: a
\* known house name maps to its number ("Tenth_House" to 10), an unknown name
\* and a house that is neither a string nor an integer map to 1, and a None
\* or missing retrograde flag becomes false
C21_HouseAndRetrograde ==
    PlanetDone =>
        /\ DOMAIN report.house = {"int"}
        /\ report.house.int \in 1..12
        /\ DOMAIN report.is_retrograde = {"bool"}
        /\ \A i \in 1..12 :
              ephemeris.house = Str(HouseNames[i]) => report.house = Int_(i)
        /\ ephemeris.house = Str("Tenth_House") => report.house = Int_(10)
        /\ (IsStr(ephemeris.house) /\ \A i \in 1..12 : ephemeris.house.str # HouseNames[i])
              => report.house = Int_(1)
        /\ (~IsStr(ephemeris.house) /\ ~IsInt(ephemeris.house) /\ ephemeris.house # Missing)
              => report.house = Int_(1)
        /\ ephemeris.retrograde \in {None, Missing} => report.is_retrograde = Bool(FALSE)
        /\ ephemeris.retrograde \notin {None, Missing}
              => report.is_retrograde = ephemeris.retrograde

\* what of C21 holds: names, values that are neither str nor int, and the
\* retrograde flag are treated as it says, and a house that is an int is the
\* house of the position as it came
HouseOfNamesAndFlags ==
    PlanetDone =>
        /\ DOMAIN report.is_retrograde = {"bool"}
        /\ \A i \in 1..12 :
              ephemeris.house = Str(HouseNames[i]) => report.house = Int_(i)
        /\ (IsStr(ephemeris.house) /\ \A i \in 1..12 : ephemeris.house.str # HouseNames[i])
              => report.house = Int_(1)
        /\ (~IsStr(ephemeris.house) /\ ~IsInt(ephemeris.house))
              => report.house = Int_(1)
        /\ IsInt(ephemeris.house) => report.house = ephemeris.house
        /\ ephemeris.retrograde \in {None, Missing} => report.is_retrograde = Bool(FALSE)
        /\ ephemeris.retrograde \notin {None, Missing}
              => report.is_retrograde = ephemeris.retrograde

(***************************************************************************)
(* Absent bodies (specification SpecSynastry)                              *)
(***************************************************************************)
\* the bodies a chart holds as None
AbsentIn(chart) == {k \in DOMAIN chart : chart[k] = None}

\* C23: for every set of bodies the adapter reports as absent,
\* calculate_natal_chart and calculate_synastry complete without raising, and
\* the two charts of the report hold None for exactly the absent bodies
C23_AbsentBodiesTolerated ==
    pc = "synastry_reported" =>
        /\ "error" \notin DOMAIN report
        /\ AbsentIn(report.user1_chart) = AbsentIn(chart1)
        /\ AbsentIn(report.user2_chart) = AbsentIn(chart2)

(***************************************************************************)
(* Properties of the birth data parser (specification SpecParse)           *)
(***************************************************************************)
ParseDone == pc = "parse_done"

\* a date of the shape YYYY-MM-DD that the calendar has
WellFormedDate(text) ==
    /\ Len(text) = 10
    /\ \A i \in {1, 2, 3, 4, 6, 7, 9, 10} : IsDigit(text[i])
    /\ text[5] = "-"
    /\ text[8] = "-"
    /\ LET year  == DecimalValue(SubSeq(text, 1, 4))
           month == DecimalValue(SubSeq(text, 6, 7))
           day   == DecimalValue(SubSeq(text, 9, 10))
       IN  year >= 1 /\ month \in 1..12 /\ day \in 1..DaysInMonth(year, month)

\* a string of one or two digits
OneOrTwoDigits(text) == Len(text) \in {1, 2} /\ \A i \in DOMAIN text : IsDigit(text[i])

\* a time of the shape HH:MM (also H:MM, HH:M) with the hour in 0..23 and the
\* minute in 0..59
WellFormedTime(text) ==
    LET parts == Split(text)
    IN  /\ Len(parts) = 2
        /\ OneOrTwoDigits(parts[1])
        /\ OneOrTwoDigits(parts[2])
        /\ DecimalValue(parts[1]) \in 0..23
        /\ DecimalValue(parts[2]) \in 0..59

\* C24: parse_birth_data returns (year, month, day, hour, minute) only for a
\* well-formed date and a well-formed time, every malformed date or time
\* string results in a ValueError, and the components returned are the ones
\* written in the strings, none defaulted
C24_ParseOnlyWellFormed ==
    ParseDone =>
        IF WellFormedDate(request.date) /\ WellFormedTime(request.time)
        THEN /\ report # ValueError
             /\ report.year = DecimalValue(SubSeq(request.date, 1, 4))
             /\ report.month = DecimalValue(SubSeq(request.date, 6, 7))
             /\ report.day = DecimalValue(SubSeq(request.date, 9, 10))
             /\ report.hour = DecimalValue(Split(request.time)[1])
             /\ report.minute = DecimalValue(Split(request.time)[2])
        ELSE report = ValueError

\* the part of C24 that holds: well-formed strings are parsed to what they say
ParseOfWellFormed ==
    (ParseDone /\ WellFormedDate(request.date) /\ WellFormedTime(request.time)) =>
        /\ report # ValueError
        /\ report.year = DecimalValue(SubSeq(request.date, 1, 4))
        /\ report.month = DecimalValue(SubSeq(request.date, 6, 7))
        /\ report.day = DecimalValue(SubSeq(request.date, 9, 10))
        /\ report.hour = DecimalValue(Split(request.time)[1])
        /\ report.minute = DecimalValue(Split(request.time)[2])

(***************************************************************************)
(* Properties of a natal chart request (specification SpecRequest)         *)
(***************************************************************************)
RequestAnswered == pc = "answered"

\* the source raised while the chart of a well-formed request was computed
SourceRaised ==
    /\ parse_birth_data(request.date, request.time) # ValueError
    /\ \/ ephemeris.raised
       \/ \E k \in NatalKeys : ephemeris.bodies[NatalAttr(k)] = AccessRaises

\* the bodies whose computation raised
AffectedBodies ==
    IF ephemeris.raised THEN NatalKeys
    ELSE {k \in NatalKeys : ephemeris.bodies[NatalAttr(k)] = AccessRaises}

\* C22: when the ephemeris source raises while a chart is computed, the
\* failure does not reach the caller of calculate_natal_chart: the affected
\* body is reported as None and the remaining bodies are still returned
C22_SourceFailureContained ==
    (RequestAnswered /\ SourceRaised) =>
        /\ report # EphemerisError
        /\ "positions" \in DOMAIN report
        /\ \A k \in AffectedBodies : report.positions[k] = None
        /\ \A k \in NatalKeys \ AffectedBodies :
              report.positions[k] =
                  get_planet_data(NatalAttr(k), ephemeris.bodies[NatalAttr(k)])

(***************************************************************************)
(* Focus areas and the iteration order of the set (specification           *)
(* SpecAspect)                                                             *)
(***************************************************************************)
\* C27: for one and the same orb-sorted transit list determine_focus_areas
\* returns the same focus areas in the same order, whatever order the process
\* iterates the deduplicating set in, also when the 5 tightest transits give
\* more than 5 keywords
C27_FocusAreasFixedByInput ==
    TransitsDone =>
        \A focus_areas \in determine_focus_areas(transit_aspects) :
            focus_areas = transit_summary.focus_areas

(***************************************************************************)
(* Disjoint acceptance windows (specification SpecAspect)                  *)
(***************************************************************************)
\* the acceptance windows of a candidate table lie apart from each other
WindowsDisjoint(aspect_angles) ==
    \A i, j \in DOMAIN aspect_angles :
        i < j => aspect_angles[i].angle + aspect_angles[i].orb
                     < aspect_angles[j].angle - aspect_angles[j].orb

\* at a distance at most one candidate of the table is within tolerance, and
\* the candidate the loop stops at is the one with the smallest orb
FirstIsBest(aspect_angles, diff) ==
    /\ Cardinality(Matching(aspect_angles, diff)) <= 1
    /\ FirstMatch(aspect_angles, diff) = BestMatch(aspect_angles, diff)

\* C29: with the tolerances of both call sites the five acceptance windows
\* are pairwise disjoint, so that for every pair of longitudes the aspect the
\* first-match loop emits is also the candidate with the smallest orb
C29_FirstMatchIsBestMatch ==
    /\ WindowsDisjoint(aspect_angles_synastry)
    /\ WindowsDisjoint(aspect_angles_transits)
    /\ SynastryDone => \A pp \in SynastryPairs :
          /\ FirstIsBest(aspect_angles_synastry, SynastryPairDistance(pp))
          /\ \A i \in SynastryEntries(pp) :
                synastry_aspects[i].aspect_type =
                    aspect_angles_synastry[
                        BestMatch(aspect_angles_synastry, SynastryPairDistance(pp))].name
    /\ TransitsDone => \A pp \in TransitPairs :
          /\ FirstIsBest(aspect_angles_transits, TransitPairDistance(pp))
          /\ \A i \in TransitEntries(pp) :
                transit_aspects[i].aspect =
                    aspect_angles_transits[
                        BestMatch(aspect_angles_transits, TransitPairDistance(pp))].name

\* the fallback classified a pair 66 degrees apart and a pair 54 degrees
\* apart, the two edges of the sextile window, as sextiles
C29_Witness ==
    /\ SynastryDone
    /\ \E pp \in SynastryPairs :
          /\ SynastryPairDistance(pp) = Deg(66)
          /\ \E i \in SynastryEntries(pp) : synastry_aspects[i].aspect_type = "sextile"
    /\ \E pp \in SynastryPairs :
          /\ SynastryPairDistance(pp) = Deg(54)
          /\ \E i \in SynastryEntries(pp) : synastry_aspects[i].aspect_type = "sextile"

(***************************************************************************)
(* Properties of the description lists (specification SpecBuckets)         *)
(***************************************************************************)
\* the contribution and the category of the aspect at a place of the list
Contribution(i) == weighted_locals.per_aspect[i].final_score
CategoryOfAspect(i) == weighted_locals.per_aspect[i].category

\* the aspects that have to go to a description list
ClaimedMembers(bucket) ==
    {i \in DOMAIN aspects :
        IF bucket = "challenge"
        THEN \/ FloatLess(Contribution(i), FloatOfInt(0 - 3))
             \/ (FloatSign(Contribution(i)) < 0 /\ CategoryOfAspect(i) = "challenges")
        ELSE /\ FloatSign(Contribution(i)) > 0
             /\ \/ CategoryOfAspect(i) = bucket
                \/ (bucket = "emotional" /\ CategoryOfAspect(i) = "challenges")}

\* the aspects that may go to a description list besides: a contribution of
\* exactly 0 in category challenges, which the rule does not place
AllowedMembers(bucket) ==
    ClaimedMembers(bucket) \cup
        {i \in DOMAIN aspects :
            bucket = "emotional" /\ FloatIsZero(Contribution(i))
                /\ CategoryOfAspect(i) = "challenges"}

\* the description of the aspect at a place of the list
DescriptionOf(i) == AspectDesc(aspects[i], weighted_locals.per_aspect[i])

\* a returned list holds only descriptions of its own aspects, each aspect at
\* most once, is as long as the cut allows, and leaves out only aspects that
\* no returned one ranks behind
HoldsTheTop(list, bucket, cut, descending) ==
    /\ Len(list) <= cut
    /\ Len(list) >= Min(cut, Cardinality(ClaimedMembers(bucket)))
    /\ \A k \in DOMAIN list :
          Cardinality({j \in DOMAIN list : list[j] = list[k]})
              <= Cardinality({i \in AllowedMembers(bucket) : DescriptionOf(i) = list[k]})
    /\ \A i \in ClaimedMembers(bucket) :
          \/ \E k \in DOMAIN list : list[k] = DescriptionOf(i)
          \/ /\ Len(list) = cut
             /\ \A k \in DOMAIN list :
                   IF descending THEN list[k].score >= DescriptionOf(i).score
                   ELSE list[k].score <= DescriptionOf(i).score
    /\ \A k \in DOMAIN list : k > 1 =>
          IF descending THEN list[k - 1].score >= list[k].score
          ELSE list[k - 1].score <= list[k].score

\* C28: chemistry_aspects and emotional_aspects hold at most 5 descriptions
\* and intellectual_aspects at most 3, sorted by contribution descending;
\* challenge_aspects holds at most 5, sorted ascending; an aspect appears in
\* at most one list: a positive contribution goes to the list of the pair's
\* category (to emotional_aspects when the category is challenges), a
\* contribution below -3, or any negative one in category challenges, goes to
\* challenge_aspects, and a contribution in [-3, 0] outside challenges goes to
\* no list
C28_DescriptionLists ==
    WeightedDone =>
        /\ HoldsTheTop(weighted_scores.chemistry_aspects, "chemistry", 5, TRUE)
        /\ HoldsTheTop(weighted_scores.emotional_aspects, "emotional", 5, TRUE)
        /\ HoldsTheTop(weighted_scores.intellectual_aspects, "intellectual", 3, TRUE)
        /\ HoldsTheTop(weighted_scores.challenge_aspects, "challenge", 5, FALSE)
        /\ \A i \in DOMAIN aspects :
              Cardinality({b \in {"chemistry", "emotional", "intellectual", "challenge"} :
                               i \in AllowedMembers(b)}) <= 1

\* more than 5 aspects had to go to chemistry_aspects, challenge_aspects got
\* two of different scores, and an aspect with a contribution in [-3, 0] went
\* to no list
C28_Witness ==
    /\ WeightedDone
    /\ Cardinality(ClaimedMembers("chemistry")) > 5
    /\ Len(weighted_scores.chemistry_aspects) = 5
    /\ Len(weighted_scores.challenge_aspects) >= 2
    /\ weighted_scores.challenge_aspects[1].score < weighted_scores.challenge_aspects[2].score
    /\ \E i \in DOMAIN aspects :
          /\ FloatSign(Contribution(i)) <= 0
          /\ FloatLeq(FloatOfInt(0 - 3), Contribution(i))
          /\ CategoryOfAspect(i) # "challenges"
          /\ \A b \in {"chemistry", "emotional", "intellectual", "challenge"} :
                i \notin AllowedMembers(b)

(***************************************************************************)
(* Symmetry of the weighted score (specification SpecScore)                *)
(***************************************************************************)
\* the aspect list seen from person 2
Mirrored(aspect_list) == [i \in DOMAIN aspect_list |-> Mirror(aspect_list[i])]

\* the numeric scores of a record of calculate_weighted_score
NumericScores(scores) ==
    <<scores.overall, scores.chemistry, scores.emotional, scores.intellectual,
      scores.challenges_score, scores.element_compatibility.bonus>>

\* C30: the numeric scores of calculate_weighted_score are symmetric in the
\* two persons: exchanging chart1 with chart2 and, in every aspect,
\* person1_planet with person2_planet leaves overall, chemistry, emotional,
\* intellectual, challenges_score and the element bonus unchanged
C30_ScoresSymmetric ==
    WeightedDone =>
        NumericScores(calculate_weighted_score(Mirrored(aspects), chart2, chart1))
            = NumericScores(weighted_scores)

\* a list that starts with a Moon-Sun trine was scored, a pair the special
\* scores list as Sun-Moon only, and the overall score is not the neutral one
C30_Witness ==
    /\ WeightedDone
    /\ Len(aspects) >= 1
    /\ aspects[1].person1_planet = "Moon"
    /\ aspects[1].person2_planet = "Sun"
    /\ aspects[1].aspect_type = "trine"
    /\ Mirrored(aspects) # aspects
    /\ weighted_locals.per_aspect[1].base_score = 12
    /\ weighted_scores.overall > 50

(***************************************************************************)
(* Two charts with the same signs and trines between them (specification   *)
(* SpecTrines)                                                             *)
(***************************************************************************)
\* Sun, Moon, Venus and Mars of the two charts are in the same signs, and the
\* aspects between the charts are trines among these planets, at least one,
\* each with an orb within the trine tolerance of 8 degrees
TrineScenario ==
    /\ \A i \in 1..4 :
          SignAt(chart1[TrinePlanets[i]].degree) = SignAt(chart2[TrinePlanets[i]].degree)
    /\ ElementOf(chart1, "sun") = ElementOf(chart2, "sun")
    /\ ElementOf(chart1, "moon") = ElementOf(chart2, "moon")
    /\ Len(aspects) > 0
    /\ \A i \in DOMAIN aspects :
          /\ aspects[i].aspect_type = "trine"
          /\ aspects[i].orb <= 800
          /\ aspects[i].person1_planet \in {"Sun", "Moon", "Venus", "Mars"}
          /\ aspects[i].person2_planet \in {"Sun", "Moon", "Venus", "Mars"}

\* C25: for two charts whose Sun, Moon, Venus and Mars are in the same signs
\* and whose aspects among these planets are all trines within the trine
\* tolerance, the overall score is at least 65 (the weighted one and the one
\* of calculate_compatibility_scores) and harmonious_count is greater than
\* challenging_count
C25_TrineScenarioScores ==
    TrineScenario =>
        /\ WeightedDone => weighted_scores.overall >= 65
        /\ CompatDone =>
              /\ compat_scores.overall >= 65
              /\ compat_scores.harmonious_count > compat_scores.challenging_count

\* the scenario was scored by calculate_compatibility_scores: several trines,
\* one of them at an orb of more than 5 degrees
C25_Witness ==
    /\ TrineScenario
    /\ CompatDone
    /\ Len(aspects) >= 3
    /\ \E i \in DOMAIN aspects : aspects[i].orb > 500
    /\ \E i \in DOMAIN aspects : aspects[i].orb = 0
    /\ compat_scores.harmonious_count = Len(aspects)
    /\ compat_scores.overall >= 65

====
